---- MODULE Spec2Model ----
(***************************************************************************)
(* Granja Valencia: lots (lotes), pens (corrales) and pigs (cerdos) kept   *)
(* in a relational store, and the service operations that change them      *)
(* (CerdoService, CorralService, LoteService).                              *)
(*                                                                         *)
(* The three tables are sequences: the index of a row is its primary key   *)
(* (a fresh UUID in the code, the next free index here), rows are never     *)
(* deleted.  Every service method is one action; res records the method     *)
(* that ran last, what it returned and how its transaction ended.           *)
(* Where calls of several callers overlap a method is several actions:      *)
(* crearCerdo its checks and its writes (SpecConcurrente), actualizarCorral *)
(* its checks and its update (SpecReasignar), transferirCerdo its checks,   *)
(* each of its writes and its commit (SpecTransaccion).  In SpecBaja,       *)
(* SpecTrasladoBaja, SpecPesajes, SpecContadores and SpecVerificar every    *)
(* statement of a pig operation is a step of its own (abiertas holds the    *)
(* open transactions): reads see the committed rows and the rows the        *)
(* transaction wrote, writes wait for the row locks of the others.          *)
(* SpecTexto takes the column observaciones as the text it is (bitacora)    *)
(* and reads it back with the pattern of obtenerHistorial.                  *)
(*                                                                         *)
(* Abstractions:                                                            *)
(*  - weights are whole numbers; a pen's average weight is the exact        *)
(*    fraction [num, den] in lowest terms;                                  *)
(*  - new Date() is a per-pig logical stamp (ultima_fecha_pesaje counts    *)
(*    the writes of that column);                                           *)
(*  - a pig's observaciones column is the sequence of its lines, one per    *)
(*    registrarCambio call, after the text of the payload if it had one;    *)
(*    a note is one line of plain text;                                     *)
(*  - the unique keys Lote.codigo and Corral.numero and the lot's initial   *)
(*    weights are written but never read by the operations on the          *)
(*    counters and are left out of the rows.                                *)
(***************************************************************************)
EXTENDS Integers, Sequences, FiniteSets, TLC

\* ---------------------------------------------------------------- bounds
MaxLotes    == 2      \* rows of the table lotes
MaxCorrales == 2      \* rows of the table corrales
MaxCerdos   == 2      \* rows of the table cerdos
MaxCambios  == 3      \* lines of all change logs together
MaxCap      == 2      \* largest capacidad a payload carries
MaxCant     == 1      \* largest cantidad_inicial a payload carries
\* SpecVida
MaxLotesVida   == 1   \* rows of the table lotes
MaxCerdosVida  == 1   \* rows of the table cerdos
MaxCambiosVida == 4   \* lines of all change logs together
\* SpecAlta
MaxLotesAlta    == 2  \* rows of the table lotes
MaxCorralesAlta == 1  \* rows of the table corrales
MaxCerdosAlta   == 1  \* rows of the table cerdos
MaxCambiosAlta  == 2  \* lines of all change logs together
\* SpecLote
MaxCambiosLote == 2   \* lines of all change logs together
\* SpecHistorial
MaxCambiosHist == 3   \* lines of all change logs together
\* SpecTransaccion
MaxCambiosTx == 2     \* lines of all change logs together
\* SpecTraslado
MaxLotesTras    == 1  \* rows of the table lotes
MaxCorralesTras == 2  \* rows of the table corrales
MaxCerdosTras   == 2  \* rows of the table cerdos
MaxCambiosTras  == 3  \* lines of all change logs together
\* SpecContadores
MaxCambiosCont == 3     \* lines of all change logs together
\* SpecTexto
MaxCambiosTexto == 2    \* records appended to the text of one pig
\* SpecPesajes
MaxCambiosPesajes == 4  \* lines of all change logs together
\* SpecConcurrente
MaxLlamadores == 2    \* callers whose crearCerdo calls run at the same time
MaxCerdosConc == 2    \* rows of the table cerdos
MaxLotesConc  == 1    \* rows of the table lotes

\* ---------------------------------------------------------- value domains
EstadosCerdo == {"ACTIVO", "VENDIDO", "MUERTO", "ENFERMO"}
\* the states a pig does not leave
Terminal     == {"VENDIDO", "MUERTO"}
EstadosLote  == {"ACTIVO", "FINALIZADO"}
Sitios       == {"LECHON", "ENGORDE"}
TiposCorral  == {"LECHON", "ENGORDE", "ENFERMERIA"}
Aretes       == {"A-000001", "A-000002"}
\* 10 -> 13 is a variation of exactly 30%, 10 -> 14 one of 40%
PesosPesaje    == {0, 13, 14}
Notas          == {""}
Faults       == {"none", "write", "reload"}

\* a field a Partial<> payload does not carry
Undef   == -1
UndefS  == "UNDEF"
NoId    == 0

\* enCurso[k]: the payload of the crearCerdo call of caller k whose checks have
\* passed and whose writes are still to come (<< >> when there is none)
\* enCorral: the actualizarCorral call whose checks have passed and whose
\* corral.update is still to come (<< >> when there is none)
\* enTraslado: the transferirCerdo call whose transaction is open, with the
\* rows it has written and not yet committed (<< >> when there is none)
\* abiertas[k]: the pig operation of caller k that runs statement by
\* statement, with the rows its open transaction has written (<< >> when
\* there is none)
VARIABLES lotes, corrales, cerdos, res, enCurso, enCorral, enTraslado, abiertas,
          bitacora

vars == <<lotes, corrales, cerdos, res, enCurso, enCorral, enTraslado, abiertas,
          bitacora>>
db   == <<lotes, corrales, cerdos>>
\* the calls that are under way, and the text whose change log is read
enVuelo == <<enCurso, enCorral, enTraslado, abiertas, bitacora>>

\* ------------------------------------------------------------ arithmetic
Abs(x) == IF x < 0 THEN -x ELSE x

RECURSIVE GCD(_, _)
GCD(a, b) == IF b = 0 THEN a ELSE GCD(b, a % b)

\* sum / n as a fraction in lowest terms (n > 0, sum >= 0)
Fraccion(sum, n) ==
  LET g == GCD(sum, n) IN [num |-> sum \div g, den |-> n \div g]

Cero == [num |-> 0, den |-> 1]

Result(op, err, tx) == [op |-> op, err |-> err, tx |-> tx]

\* no response is waiting for the caller
Idle == Result("-", "OK", "none")

Init ==
  /\ lotes = << >>
  /\ corrales = << >>
  /\ cerdos = << >>
  /\ res = Idle
  /\ enCurso = [k \in 1..MaxLlamadores |-> << >>]
  /\ enCorral = << >>
  /\ enTraslado = << >>
  /\ abiertas = [k \in 1..MaxLlamadores |-> << >>]
  /\ bitacora = [observaciones |-> << >>, cambios |-> << >>, historial |-> << >>]

\* the controller hands the outcome of the service call to the caller
sendResponse ==
  /\ res # Idle
  /\ res' = Idle
  /\ UNCHANGED <<db, enVuelo>>

\* ================================================================ LoteService

\* crearLote(data): the lot starts with cantidad_actual = cantidad_inicial
crearLoteError(data) ==
  IF \/ data.peso_minimo_inicial > data.peso_promedio_inicial
     \/ data.peso_maximo_inicial < data.peso_promedio_inicial
  THEN "ERROR" ELSE "OK"

crearLote(data) ==
  IF crearLoteError(data) # "OK"
  THEN /\ res' = Result("crearLote", "ERROR", "none")
       /\ UNCHANGED db
  ELSE /\ lotes' = Append(lotes,
                     [estado |-> IF data.estado = UndefS THEN "ACTIVO" ELSE data.estado,
                      sitio |-> data.sitio,
                      cantidad_inicial |-> data.cantidad_inicial,
                      cantidad_actual |-> data.cantidad_inicial])
       /\ res' = Result("crearLote", "OK", "none")
       /\ UNCHANGED <<corrales, cerdos>>

\* lote.update(data): every field the payload carries overwrites the column
LoteUpdate(l, data) ==
  [estado |-> IF data.estado = UndefS THEN l.estado ELSE data.estado,
   sitio |-> IF data.sitio = UndefS THEN l.sitio ELSE data.sitio,
   cantidad_inicial |-> IF data.cantidad_inicial = Undef
                        THEN l.cantidad_inicial ELSE data.cantidad_inicial,
   cantidad_actual |-> IF data.cantidad_actual = Undef
                       THEN l.cantidad_actual ELSE data.cantidad_actual]

actualizarLote(id, data) ==
  IF id \notin DOMAIN lotes
  THEN /\ res' = Result("actualizarLote", "NULL", "none")
       /\ UNCHANGED db
  ELSE /\ lotes' = [lotes EXCEPT ![id] = LoteUpdate(lotes[id], data)]
       /\ res' = Result("actualizarLote", "OK", "none")
       /\ UNCHANGED <<corrales, cerdos>>

finalizarLote(id) ==
  IF id \notin DOMAIN lotes
  THEN /\ res' = Result("finalizarLote", "NULL", "none")
       /\ UNCHANGED db
  ELSE IF lotes[id].estado = "FINALIZADO"
  THEN /\ res' = Result("finalizarLote", "ERROR", "none")
       /\ UNCHANGED db
  ELSE /\ lotes' = [lotes EXCEPT ![id].estado = "FINALIZADO"]
       /\ res' = Result("finalizarLote", "OK", "none")
       /\ UNCHANGED <<corrales, cerdos>>

\* ============================================================== CorralService

crearCorralError(data) ==
  IF data.lote_id \notin DOMAIN lotes THEN "ERROR"
  ELSE IF data.capacidad <= 0 THEN "ERROR"
  ELSE IF data.tipo = "LECHON" /\ lotes[data.lote_id].sitio # "LECHON" THEN "ERROR"
  ELSE "OK"

\* crearCorral(data): the pen starts empty whatever the payload carries
crearCorral(data) ==
  IF crearCorralError(data) # "OK"
  THEN /\ res' = Result("crearCorral", "ERROR", "none")
       /\ UNCHANGED db
  ELSE /\ corrales' = Append(corrales,
                        [lote_id |-> data.lote_id,
                         capacidad |-> data.capacidad,
                         tipo |-> data.tipo,
                         ocupacion_actual |-> 0,
                         peso_promedio_actual |-> Cero])
       /\ res' = Result("crearCorral", "OK", "none")
       /\ UNCHANGED <<lotes, cerdos>>

\* Cerdo.count({ where: { corral_id: id } }): pigs of every state
CerdosCount(id) == Cardinality({p \in DOMAIN cerdos : cerdos[p].corral_id = id})

actualizarCorralError(id, data) ==
  IF data.lote_id # NoId /\ data.lote_id \notin DOMAIN lotes THEN "ERROR"
  ELSE IF data.lote_id # NoId /\ CerdosCount(id) > 0 THEN "ERROR"
  ELSE IF data.capacidad # Undef /\ data.capacidad <= 0 THEN "ERROR"
  ELSE IF data.capacidad # Undef /\ data.capacidad < corrales[id].ocupacion_actual
  THEN "ERROR"
  ELSE "OK"

\* corral.update(data): every field the payload carries overwrites the column
CorralUpdate(c, data) ==
  [lote_id |-> IF data.lote_id = NoId THEN c.lote_id ELSE data.lote_id,
   capacidad |-> IF data.capacidad = Undef THEN c.capacidad ELSE data.capacidad,
   tipo |-> IF data.tipo = UndefS THEN c.tipo ELSE data.tipo,
   ocupacion_actual |-> IF data.ocupacion_actual = Undef
                        THEN c.ocupacion_actual ELSE data.ocupacion_actual,
   peso_promedio_actual |-> IF data.peso_promedio_actual = Undef
                            THEN c.peso_promedio_actual
                            ELSE Fraccion(data.peso_promedio_actual, 1)]

actualizarCorral(id, data) ==
  IF id \notin DOMAIN corrales
  THEN /\ res' = Result("actualizarCorral", "NULL", "none")
       /\ UNCHANGED db
  ELSE IF actualizarCorralError(id, data) # "OK"
  THEN /\ res' = Result("actualizarCorral", "ERROR", "none")
       /\ UNCHANGED db
  ELSE /\ corrales' = [corrales EXCEPT ![id] = CorralUpdate(corrales[id], data)]
       /\ res' = Result("actualizarCorral", "OK", "none")
       /\ UNCHANGED <<lotes, cerdos>>

\* actualizarCorral when calls of several callers overlap.  The checks read
\* the store and corral.update writes it later, on the store as it then is,
\* with no transaction around the two.  actualizarCorralVerificar is the call
\* up to its last check, actualizarCorralEscribir the rest.
actualizarCorralVerificar(id, data) ==
  /\ enCorral = << >>
  /\ UNCHANGED db
  /\ IF id \notin DOMAIN corrales
     THEN /\ res' = Result("actualizarCorral", "NULL", "none")
          /\ UNCHANGED enCorral
     ELSE IF actualizarCorralError(id, data) # "OK"
     THEN /\ res' = Result("actualizarCorral", "ERROR", "none")
          /\ UNCHANGED enCorral
     ELSE /\ enCorral' = <<[id |-> id, data |-> data]>>
          /\ UNCHANGED res

actualizarCorralEscribir ==
  /\ enCorral # << >>
  /\ enCorral' = << >>
  /\ corrales' = [corrales EXCEPT ![enCorral[1].id] =
                    CorralUpdate(corrales[enCorral[1].id], enCorral[1].data)]
  /\ res' = Result("actualizarCorral", "OK", "none")
  /\ UNCHANGED <<lotes, cerdos>>

\* =============================================================== CerdoService

\* `${valor}` of the line template: a number is written as text (a state or
\* an id is text already)
Texto(n) == ToString(n)

\* the new line put before the text of the column
registrarCambio_AlInicio(cs, id, tipo, valorAnterior, valorNuevo, observaciones) ==
  [cs EXCEPT ![id].observaciones =
     <<[tipo |-> tipo,
        valorAnterior |-> valorAnterior,
        valorNuevo |-> valorNuevo,
        observaciones |-> observaciones]>> \o @]

\* registrarCambio(cerdo, cambio): one more line at the end of observaciones,
\* with both values as text
registrarCambio(cs, id, tipo, valorAnterior, valorNuevo, observaciones) ==
  [cs EXCEPT ![id].observaciones =
     Append(@, [tipo |-> tipo,
                valorAnterior |-> valorAnterior,
                valorNuevo |-> valorNuevo,
                observaciones |-> observaciones])]

\* the lines the pattern of obtenerHistorial matches: those of the template,
\* whose field is PESO, ESTADO or CORRAL
EsRegistro(linea) == linea.tipo \in {"PESO", "ESTADO", "CORRAL"}

\* obtenerHistorial(id): the lines of observaciones that match, in the order
\* of the column; a line without a note has no observaciones
obtenerHistorial(cs, id) ==
  LET lineas == SelectSeq(cs[id].observaciones, EsRegistro) IN
  [i \in DOMAIN lineas |->
     [tipo |-> lineas[i].tipo,
      valorAnterior |-> lineas[i].valorAnterior,
      valorNuevo |-> lineas[i].valorNuevo,
      observaciones |-> IF lineas[i].observaciones = "" THEN UndefS
                        ELSE lineas[i].observaciones]]

\* Cerdo.findAll({ where: { corral_id, estado: 'ACTIVO' } })
Activos(cs, corralId) ==
  {p \in DOMAIN cs : cs[p].corral_id = corralId /\ cs[p].estado = "ACTIVO"}

RECURSIVE SumaPesos(_, _)
SumaPesos(cs, S) ==
  IF S = {} THEN 0
  ELSE LET p == CHOOSE x \in S : TRUE
       IN cs[p].peso_actual + SumaPesos(cs, S \ {p})

\* actualizarPesoPromedioCorral(corralId): the stored average is rewritten
\* only when the pen holds at least one ACTIVO pig
actualizarPesoPromedioCorral(cs, cors, corralId) ==
  LET A == Activos(cs, corralId) IN
  IF A # {} /\ corralId \in DOMAIN cors
  THEN [cors EXCEPT ![corralId].peso_promedio_actual =
          Fraccion(SumaPesos(cs, A), Cardinality(A))]
  ELSE cors

\* the comparison with >= in place of >: a variation of exactly 30% is rejected
validarPeso_TreintaRechazado(pesoActual, pesoNuevo) ==
  ~ (10 * Abs(pesoNuevo - pesoActual) >= 3 * pesoActual)

\* validarPeso(pesoActual, pesoNuevo): |new - old| / old > 0.3 is rejected
validarPeso(pesoActual, pesoNuevo) ==
  ~ (10 * Abs(pesoNuevo - pesoActual) > 3 * pesoActual)

\* ---------------------------------------------------------------- crearCerdo
\* the capacity check with > in place of >=
crearCerdoError_MayorEstricto(data) ==
  IF data.lote_id \notin DOMAIN lotes THEN "NOT_FOUND"
  ELSE IF \/ data.corral_id \notin DOMAIN corrales
          \/ corrales[data.corral_id].lote_id # data.lote_id THEN "NOT_FOUND"
  ELSE IF corrales[data.corral_id].ocupacion_actual
            > corrales[data.corral_id].capacidad THEN "CORRAL_FULL"
  ELSE IF \E p \in DOMAIN cerdos : cerdos[p].arete = data.arete
  THEN "DUPLICATE_ARETE"
  ELSE "OK"

\* the pen looked up by its id alone, without the lot of the payload
crearCerdoError_SinLote(data) ==
  IF data.lote_id \notin DOMAIN lotes THEN "NOT_FOUND"
  ELSE IF data.corral_id \notin DOMAIN corrales THEN "NOT_FOUND"
  ELSE IF corrales[data.corral_id].ocupacion_actual
            >= corrales[data.corral_id].capacidad THEN "CORRAL_FULL"
  ELSE IF \E p \in DOMAIN cerdos : cerdos[p].arete = data.arete
  THEN "DUPLICATE_ARETE"
  ELSE "OK"

crearCerdoError(data) ==
  IF data.lote_id \notin DOMAIN lotes THEN "NOT_FOUND"
  ELSE IF \/ data.corral_id \notin DOMAIN corrales
          \/ corrales[data.corral_id].lote_id # data.lote_id THEN "NOT_FOUND"
  ELSE IF corrales[data.corral_id].ocupacion_actual
            >= corrales[data.corral_id].capacidad THEN "CORRAL_FULL"
  ELSE IF \E p \in DOMAIN cerdos : cerdos[p].arete = data.arete
  THEN "DUPLICATE_ARETE"
  ELSE "OK"

\* { ...data, ...over }: the fields of over win over those of data
Spread(data, over) ==
  [f \in DOMAIN data \cup DOMAIN over |->
     IF f \in DOMAIN over THEN over[f] ELSE data[f]]

\* a line of the column observaciones that is free text, and not a line of
\* the template of registrarCambio
LineaTexto(texto) ==
  [tipo |-> "TEXTO", valorAnterior |-> "", valorNuevo |-> "", observaciones |-> texto]

\* the fields crearCerdo sets itself in the row it creates; the column
\* observaciones holds the text of the payload, when it carries one
CerdoPropios(data) ==
  [estado |-> "ACTIVO",
   peso_actual |-> data.peso_inicial,
   ultima_fecha_pesaje |-> 1,
   observaciones |-> IF "observaciones" \in DOMAIN data
                     THEN <<LineaTexto(data.observaciones)>> ELSE << >>]

\* the payload spread after the fields of the service, so that the estado and
\* the peso_actual of the payload win
CerdoCreate_PayloadGana(data) ==
  [Spread(data, CerdoPropios(data)) EXCEPT
     !.estado = data.estado,
     !.peso_actual = IF data.peso_actual = Undef THEN @ ELSE data.peso_actual]

\* the row of Cerdo.create({ ...data, estado, peso_actual, ultima_fecha_pesaje })
CerdoCreate(data) == Spread(data, CerdoPropios(data))

\* the writes of crearCerdo, in the order of the code
crearCerdoTx(data) ==
  LET id  == Len(cerdos) + 1
      cs1 == Append(cerdos, CerdoCreate(data))
      cs2 == registrarCambio(cs1, id, "PESO", Texto(0), Texto(data.peso_inicial),
                             "Peso inicial al crear cerdo")
      co1 == [corrales EXCEPT ![data.corral_id].ocupacion_actual = @ + 1]
      lo1 == [lotes EXCEPT ![data.lote_id].cantidad_actual = @ + 1]
      co2 == actualizarPesoPromedioCorral(cs2, co1, data.corral_id)
  IN [lotes |-> lo1, corrales |-> co2, cerdos |-> cs2]

\* what the caller sees and what the store keeps, for a handler whose checks
\* yield err and whose writes yield tx: a failed check or a failed write rolls
\* the transaction back; a reload that fails after the commit reports an error
\* although the writes are committed
Transaccion(op, err, tx, fault) ==
  IF err # "OK"
  THEN /\ res' = Result(op, err, "rollback")
       /\ UNCHANGED db
  ELSE IF fault = "write"
  THEN /\ res' = Result(op, "ERROR", "rollback")
       /\ UNCHANGED db
  ELSE /\ lotes' = tx.lotes
       /\ corrales' = tx.corrales
       /\ cerdos' = tx.cerdos
       /\ res' = Result(op, IF fault = "reload" THEN "ERROR" ELSE "OK", "commit")

crearCerdo(data, fault) ==
  LET err == crearCerdoError(data) IN
  Transaccion("crearCerdo", err,
              IF err = "OK" THEN crearCerdoTx(data)
              ELSE [lotes |-> lotes, corrales |-> corrales, cerdos |-> cerdos],
              fault)

\* crearCerdo when calls of several callers overlap.  The checks read the
\* store outside the transaction; the writes run later, on the store as it
\* then is.  crearCerdoVerificar is the call up to its last check,
\* crearCerdoEscribir the rest.

\* the column arete is declared unique: with no unique index an INSERT of a
\* tag in use goes through
AreteLibre_SinIndice(cs, arete) == TRUE

\* arete: { unique: true }: the INSERT fails when a row holds the tag
AreteLibre(cs, arete) == \A p \in DOMAIN cs : cs[p].arete # arete

crearCerdoVerificar(k, data) ==
  LET err == crearCerdoError(data) IN
  /\ enCurso[k] = << >>
  /\ UNCHANGED db
  /\ IF err # "OK"
     THEN /\ res' = Result("crearCerdo", err, "rollback")
          /\ UNCHANGED enCurso
     ELSE /\ enCurso' = [enCurso EXCEPT ![k] = <<data>>]
          /\ UNCHANGED res

crearCerdoEscribir(k, fault) ==
  /\ enCurso[k] # << >>
  /\ enCurso' = [enCurso EXCEPT ![k] = << >>]
  /\ LET data == enCurso[k][1] IN
     IF ~ AreteLibre(cerdos, data.arete)
     THEN /\ res' = Result("crearCerdo", "SequelizeUniqueConstraintError", "rollback")
          /\ UNCHANGED db
     ELSE Transaccion("crearCerdo", "OK", crearCerdoTx(data), fault)

\* ----------------------------------------------------------- registrarPesaje
registrarPesajeError(id, nuevoPeso) ==
  IF id \notin DOMAIN cerdos THEN "NOT_FOUND"
  ELSE IF nuevoPeso <= 0 THEN "INVALID_WEIGHT"
  ELSE IF cerdos[id].peso_actual > 0 /\ ~ validarPeso(cerdos[id].peso_actual, nuevoPeso)
  THEN "INVALID_WEIGHT"
  ELSE "OK"

\* the weighing also writes the estado ACTIVO
registrarPesajeTx_ReactivaCerdo(id, nuevoPeso) ==
  LET pesoAnterior == cerdos[id].peso_actual
      cs1 == [cerdos EXCEPT ![id].peso_actual = nuevoPeso,
                            ![id].ultima_fecha_pesaje = @ + 1,
                            ![id].estado = "ACTIVO"]
      cs2 == registrarCambio(cs1, id, "PESO", Texto(pesoAnterior), Texto(nuevoPeso), "")
      co1 == actualizarPesoPromedioCorral(cs2, corrales, cerdos[id].corral_id)
  IN [lotes |-> lotes, corrales |-> co1, cerdos |-> cs2]

registrarPesajeTx(id, nuevoPeso) ==
  LET pesoAnterior == cerdos[id].peso_actual
      cs1 == [cerdos EXCEPT ![id].peso_actual = nuevoPeso,
                            ![id].ultima_fecha_pesaje = @ + 1]
      cs2 == registrarCambio(cs1, id, "PESO", Texto(pesoAnterior), Texto(nuevoPeso), "")
      co1 == actualizarPesoPromedioCorral(cs2, corrales, cerdos[id].corral_id)
  IN [lotes |-> lotes, corrales |-> co1, cerdos |-> cs2]

registrarPesaje(id, nuevoPeso, fault) ==
  LET err == registrarPesajeError(id, nuevoPeso) IN
  Transaccion("registrarPesaje", err,
              IF err = "OK" THEN registrarPesajeTx(id, nuevoPeso)
              ELSE [lotes |-> lotes, corrales |-> corrales, cerdos |-> cerdos],
              fault)

\* ------------------------------------------------------------- cambiarEstado
cambiarEstadoError(id, nuevoEstado) ==
  IF id \notin DOMAIN cerdos THEN "NOT_FOUND" ELSE "OK"

\* the condition under which cambiarEstado decrements the two counters
DescuentaCantidades(estado, nuevoEstado) ==
  nuevoEstado \in {"MUERTO", "VENDIDO"} /\ estado = "ACTIVO"

cambiarEstadoTx(id, nuevoEstado, observacion) ==
  LET cerdo == cerdos[id]
      estadoAnterior == cerdo.estado
      baja == DescuentaCantidades(cerdo.estado, nuevoEstado)
      co1 == IF baja /\ cerdo.corral_id \in DOMAIN corrales
             THEN [corrales EXCEPT ![cerdo.corral_id].ocupacion_actual = @ - 1]
             ELSE corrales
      lo1 == IF baja /\ cerdo.lote_id \in DOMAIN lotes
             THEN [lotes EXCEPT ![cerdo.lote_id].cantidad_actual = @ - 1]
             ELSE lotes
      cs1 == registrarCambio(cerdos, id, "ESTADO", estadoAnterior, nuevoEstado,
                             observacion)
      cs2 == [cs1 EXCEPT ![id].estado = nuevoEstado]
  IN [lotes |-> lo1, corrales |-> co1, cerdos |-> cs2]

cambiarEstado(id, nuevoEstado, observacion, fault) ==
  LET err == cambiarEstadoError(id, nuevoEstado) IN
  Transaccion("cambiarEstado", err,
              IF err = "OK" THEN cambiarEstadoTx(id, nuevoEstado, observacion)
              ELSE [lotes |-> lotes, corrales |-> corrales, cerdos |-> cerdos],
              fault)

\* ----------------------------------------------------------- transferirCerdo
\* the capacity check with > in place of >=
transferirCerdoError_MayorEstricto(idCerdo, idNuevoCorral) ==
  IF idCerdo \notin DOMAIN cerdos THEN "NOT_FOUND"
  ELSE IF idNuevoCorral \notin DOMAIN corrales THEN "NOT_FOUND"
  ELSE IF corrales[idNuevoCorral].ocupacion_actual
            > corrales[idNuevoCorral].capacidad THEN "CORRAL_FULL"
  ELSE "OK"

transferirCerdoError(idCerdo, idNuevoCorral) ==
  IF idCerdo \notin DOMAIN cerdos THEN "NOT_FOUND"
  ELSE IF idNuevoCorral \notin DOMAIN corrales THEN "NOT_FOUND"
  ELSE IF corrales[idNuevoCorral].ocupacion_actual
            >= corrales[idNuevoCorral].capacidad THEN "CORRAL_FULL"
  ELSE "OK"

\* the pen the pig leaves keeps its occupancy
transferirCerdoTx_SinDecremento(idCerdo, idNuevoCorral) ==
  LET corralAnterior == cerdos[idCerdo].corral_id
      co2 == IF corralAnterior \in DOMAIN corrales
             THEN [corrales EXCEPT ![idNuevoCorral].ocupacion_actual = @ + 1]
             ELSE corrales
      cs1 == registrarCambio(cerdos, idCerdo, "CORRAL", Texto(corralAnterior),
                             Texto(idNuevoCorral), "")
      cs2 == [cs1 EXCEPT ![idCerdo].corral_id = idNuevoCorral]
      co3 == actualizarPesoPromedioCorral(cs2, co2, corralAnterior)
      co4 == actualizarPesoPromedioCorral(cs2, co3, idNuevoCorral)
  IN [lotes |-> lotes, corrales |-> co4, cerdos |-> cs2]

transferirCerdoTx(idCerdo, idNuevoCorral) ==
  LET corralAnterior == cerdos[idCerdo].corral_id
      co1 == IF corralAnterior \in DOMAIN corrales
             THEN [corrales EXCEPT ![corralAnterior].ocupacion_actual = @ - 1]
             ELSE corrales
      co2 == IF corralAnterior \in DOMAIN corrales
             THEN [co1 EXCEPT ![idNuevoCorral].ocupacion_actual = @ + 1]
             ELSE co1
      cs1 == registrarCambio(cerdos, idCerdo, "CORRAL", Texto(corralAnterior),
                             Texto(idNuevoCorral), "")
      cs2 == [cs1 EXCEPT ![idCerdo].corral_id = idNuevoCorral]
      co3 == actualizarPesoPromedioCorral(cs2, co2, corralAnterior)
      co4 == actualizarPesoPromedioCorral(cs2, co3, idNuevoCorral)
  IN [lotes |-> lotes, corrales |-> co4, cerdos |-> cs2]

transferirCerdo(idCerdo, idNuevoCorral, fault) ==
  LET err == transferirCerdoError(idCerdo, idNuevoCorral) IN
  Transaccion("transferirCerdo", err,
              IF err = "OK" THEN transferirCerdoTx(idCerdo, idNuevoCorral)
              ELSE [lotes |-> lotes, corrales |-> corrales, cerdos |-> cerdos],
              fault)

\* transferirCerdo when calls of several callers overlap: its checks, then
\* its writes one by one, then its commit.  A write that is handed the
\* transaction stays with the transaction until the commit: the other callers
\* read the store, which does not show it.  A write that is not handed the
\* transaction is in the store at once.

\* the writes of transferirCerdo in the order of the code
EscriturasTraslado ==
  <<"decrement", "increment", "registrarCambio", "update",
    "promedioAnterior", "promedioNuevo">>

\* cerdo.update({ corral_id }) without the transaction
ConTransaccion_SinUpdate ==
  {"decrement", "increment", "registrarCambio", "promedioAnterior", "promedioNuevo"}

\* the writes that are handed { transaction }
ConTransaccion ==
  {"decrement", "increment", "registrarCambio", "update",
   "promedioAnterior", "promedioNuevo"}

\* a table as the open transaction reads it: the rows it has written over
\* those of the store
Vista(tabla, sucias) ==
  [i \in DOMAIN tabla |-> IF i \in DOMAIN sucias THEN sucias[i] ELSE tabla[i]]

\* the rows the transaction has written, after a write that takes the table
\* from antes to despues
Sucias(sucias, antes, despues) ==
  [i \in DOMAIN sucias \cup {j \in DOMAIN antes : despues[j] # antes[j]} |->
     despues[i]]

\* write number n of the transfer t on the tables cors and cs
EscribirTraslado(t, cors, cs, n) ==
  CASE n = 1 ->
         [corrales |-> IF t.corralAnterior \in DOMAIN cors
                       THEN [cors EXCEPT ![t.corralAnterior].ocupacion_actual = @ - 1]
                       ELSE cors,
          cerdos |-> cs]
    [] n = 2 ->
         [corrales |-> IF t.corralAnterior \in DOMAIN cors
                       THEN [cors EXCEPT ![t.idNuevoCorral].ocupacion_actual = @ + 1]
                       ELSE cors,
          cerdos |-> cs]
    [] n = 3 ->
         [corrales |-> cors,
          cerdos |-> registrarCambio(
                       [cs EXCEPT ![t.idCerdo].observaciones = t.observaciones],
                       t.idCerdo, "CORRAL", Texto(t.corralAnterior),
                       Texto(t.idNuevoCorral), "")]
    [] n = 4 ->
         [corrales |-> cors,
          cerdos |-> [cs EXCEPT ![t.idCerdo].corral_id = t.idNuevoCorral]]
    [] n = 5 ->
         [corrales |-> actualizarPesoPromedioCorral(cs, cors, t.corralAnterior),
          cerdos |-> cs]
    [] n = 6 ->
         [corrales |-> actualizarPesoPromedioCorral(cs, cors, t.idNuevoCorral),
          cerdos |-> cs]

\* the checks of the call, on the store; the pig is read here, and the text
\* of its observaciones is the one registrarCambio later writes after
transferirCerdoIniciar(idCerdo, idNuevoCorral) ==
  LET err == transferirCerdoError(idCerdo, idNuevoCorral) IN
  /\ enTraslado = << >>
  /\ UNCHANGED db
  /\ IF err # "OK"
     THEN /\ res' = Result("transferirCerdo", err, "rollback")
          /\ UNCHANGED enTraslado
     ELSE /\ enTraslado' = <<[idCerdo |-> idCerdo,
                              idNuevoCorral |-> idNuevoCorral,
                              corralAnterior |-> cerdos[idCerdo].corral_id,
                              observaciones |-> cerdos[idCerdo].observaciones,
                              paso |-> 1,
                              corrales |-> << >>,
                              cerdos |-> << >>]>>
          /\ UNCHANGED res

\* the next write of the open transfer, or its commit after the last one; a
\* write that fails rolls the transaction back
transferirCerdoPaso(fault) ==
  /\ enTraslado # << >>
  /\ LET t == enTraslado[1]
         n == t.paso
     IN IF n <= Len(EscriturasTraslado)
        THEN IF fault = "write"
             THEN /\ enTraslado' = << >>
                  /\ res' = Result("transferirCerdo", "ERROR", "rollback")
                  /\ UNCHANGED db
             ELSE IF EscriturasTraslado[n] \in ConTransaccion
             THEN LET antes == [corrales |-> Vista(corrales, t.corrales),
                                cerdos |-> Vista(cerdos, t.cerdos)]
                      despues == EscribirTraslado(t, antes.corrales, antes.cerdos, n)
                  IN /\ enTraslado' =
                          <<[t EXCEPT
                               !.paso = n + 1,
                               !.corrales = Sucias(@, antes.corrales, despues.corrales),
                               !.cerdos = Sucias(@, antes.cerdos, despues.cerdos)]>>
                     /\ UNCHANGED <<db, res>>
             ELSE LET despues == EscribirTraslado(t, corrales, cerdos, n)
                  IN /\ corrales' = despues.corrales
                     /\ cerdos' = despues.cerdos
                     /\ enTraslado' = <<[t EXCEPT !.paso = n + 1]>>
                     /\ UNCHANGED <<lotes, res>>
        ELSE /\ fault # "write"
             /\ corrales' = Vista(corrales, t.corrales)
             /\ cerdos' = Vista(cerdos, t.cerdos)
             /\ enTraslado' = << >>
             /\ res' = Result("transferirCerdo",
                              IF fault = "reload" THEN "ERROR" ELSE "OK", "commit")
             /\ UNCHANGED lotes

\* ------------------------------------- the operations statement by statement
\* The pig operations when calls of several callers overlap.  A call runs its
\* statements one by one in the order of the code.  A read that is not handed
\* the transaction reads the store; a read that is handed it reads the store
\* with the rows the transaction has written over it.  A write is handed the
\* transaction: it stays with the transaction until the commit, and the rows
\* it has written are locked for the other transactions until then.

\* crearCerdo raising the occupancy of the pen before it checks the capacity
Pasos_IncrementaAntes(op) ==
  CASE op = "crearCerdo" ->
         <<"lote", "corral", "incrementCorral", "capacidad", "arete", "create",
           "registrarCambio", "incrementLote", "findAll", "Corral.update", "commit">>
    [] op = "registrarPesaje" ->
         <<"cerdo", "positivo", "validarPeso", "update", "registrarCambio",
           "findAll", "Corral.update", "commit">>
    [] op = "cambiarEstado" ->
         <<"cerdo", "decrementCorral", "decrementLote", "registrarCambio",
           "update", "commit">>
    [] op = "transferirCerdo" ->
         <<"cerdo", "corralDestino", "capacidad", "decrement", "increment",
           "registrarCambio", "update", "findAllAnterior", "updateAnterior",
           "findAllNuevo", "updateNuevo", "commit">>

\* the statements of each operation in the order of the code
Pasos(op) ==
  CASE op = "crearCerdo" ->
         <<"lote", "corral", "capacidad", "arete", "create", "registrarCambio",
           "incrementCorral", "incrementLote", "findAll", "Corral.update",
           "commit">>
    [] op = "registrarPesaje" ->
         <<"cerdo", "positivo", "validarPeso", "update", "registrarCambio",
           "findAll", "Corral.update", "commit">>
    [] op = "cambiarEstado" ->
         <<"cerdo", "decrementCorral", "decrementLote", "registrarCambio",
           "update", "commit">>
    [] op = "transferirCerdo" ->
         <<"cerdo", "corralDestino", "capacidad", "decrement", "increment",
           "registrarCambio", "update", "findAllAnterior", "updateAnterior",
           "findAllNuevo", "updateNuevo", "commit">>

\* sequelize.transaction(): the call starts with nothing read and nothing
\* written; cerdo, corral and lote are the instances the call reads, promedio
\* the average it has computed and not yet written, nuevo the row it creates
Abrir(op, arg) ==
  [op |-> op, arg |-> arg, paso |-> 1, cerdo |-> << >>, corral |-> << >>,
   lote |-> << >>, promedio |-> << >>, lotes |-> << >>, corrales |-> << >>, cerdos |-> << >>, nuevo |-> << >>]

\* the tables as the transaction t reads them
VistaDe(t) ==
  [lotes |-> Vista(lotes, t.lotes),
   corrales |-> Vista(corrales, t.corrales),
   cerdos |-> Vista(cerdos, t.cerdos)]

\* the rows a statement writes
SinFilas == [lotes |-> {}, corrales |-> {}, cerdos |-> {}, aretes |-> {}]

\* the outcome of a statement: a check that passes, a check that throws, a
\* write of the rows filas that takes the tables of the transaction to v
Sigue(t, v) == [err |-> "OK", t |-> t, v |-> v, filas |-> SinFilas]
Rechaza(t, v, err) == [err |-> err, t |-> t, v |-> v, filas |-> SinFilas]
Escribe(t, v, filas) == [err |-> "OK", t |-> t, v |-> v, filas |-> filas]

\* registrarCambio(cerdo, cambio, transaction) on the instance the call read:
\* the new text is the text of the instance and the new line, and the
\* instance keeps it
RegistrarCambioInstancia(t, v, tipo, valorAnterior, valorNuevo, observaciones) ==
  LET id == t.arg.id
      cs == registrarCambio(
              [v.cerdos EXCEPT ![id].observaciones = t.cerdo[1].observaciones],
              id, tipo, valorAnterior, valorNuevo, observaciones)
  IN Escribe([t EXCEPT !.cerdo[1].observaciones = cs[id].observaciones],
             [v EXCEPT !.cerdos = cs],
             [SinFilas EXCEPT !.cerdos = {id}])

\* actualizarPesoPromedioCorral(corralId, transaction), its read: the ACTIVO
\* pigs of the pen among the pigs cs the transaction reads, and their mean
PromedioLeer(t, v, cs, corralId) ==
  LET A == Activos(cs, corralId) IN
  Sigue([t EXCEPT !.promedio =
           IF A # {} THEN <<Fraccion(SumaPesos(cs, A), Cardinality(A))>> ELSE << >>],
        v)

\* actualizarPesoPromedioCorral(corralId, transaction), its write: the mean it
\* has computed, when it found a pig
PromedioEscribir(t, v, corralId) ==
  IF t.promedio # << >> /\ corralId \in DOMAIN v.corrales
  THEN Escribe([t EXCEPT !.promedio = << >>],
               [v EXCEPT !.corrales[corralId].peso_promedio_actual = t.promedio[1]],
               [SinFilas EXCEPT !.corrales = {corralId}])
  ELSE Sigue([t EXCEPT !.promedio = << >>], v)

\* the counter set to the value of the instance plus by: an overwrite
increment_Absoluto(actual, instancia, by) == instancia + by

\* instance.increment(campo, { by, transaction }): the database adds by to
\* the value the row has, whatever the instance holds
increment(actual, instancia, by) == actual + by

PasoCrearCerdo(t, v, nombre) ==
  LET data == t.arg IN
  CASE nombre = "lote" ->
         IF data.lote_id \notin DOMAIN lotes
         THEN Rechaza(t, v, "NOT_FOUND")
         ELSE Sigue([t EXCEPT !.lote = <<lotes[data.lote_id]>>], v)
    [] nombre = "corral" ->
         IF \/ data.corral_id \notin DOMAIN corrales
            \/ corrales[data.corral_id].lote_id # data.lote_id
         THEN Rechaza(t, v, "NOT_FOUND")
         ELSE Sigue([t EXCEPT !.corral = <<corrales[data.corral_id]>>], v)
    [] nombre = "capacidad" ->
         IF t.corral[1].ocupacion_actual >= t.corral[1].capacidad
         THEN Rechaza(t, v, "CORRAL_FULL") ELSE Sigue(t, v)
    [] nombre = "arete" ->
         IF \E p \in DOMAIN cerdos : cerdos[p].arete = data.arete
         THEN Rechaza(t, v, "DUPLICATE_ARETE") ELSE Sigue(t, v)
    [] nombre = "create" ->
         IF ~ AreteLibre(cerdos, data.arete)
         THEN Rechaza(t, v, "SequelizeUniqueConstraintError")
         ELSE Escribe([t EXCEPT !.nuevo = <<CerdoCreate(data)>>], v,
                      [SinFilas EXCEPT !.aretes = {data.arete}])
    [] nombre = "registrarCambio" ->
         Escribe([t EXCEPT !.nuevo =
                    registrarCambio(@, 1, "PESO", Texto(0), Texto(data.peso_inicial),
                                    "Peso inicial al crear cerdo")],
                 v, SinFilas)
    [] nombre = "incrementCorral" ->
         Escribe(t, [v EXCEPT !.corrales[data.corral_id].ocupacion_actual =
                               increment(@, t.corral[1].ocupacion_actual, 1)],
                 [SinFilas EXCEPT !.corrales = {data.corral_id}])
    [] nombre = "incrementLote" ->
         Escribe(t, [v EXCEPT !.lotes[data.lote_id].cantidad_actual =
                               increment(@, t.lote[1].cantidad_actual, 1)],
                 [SinFilas EXCEPT !.lotes = {data.lote_id}])
    [] nombre = "findAll" ->
         PromedioLeer(t, v, v.cerdos \o t.nuevo, data.corral_id)
    [] nombre = "Corral.update" ->
         PromedioEscribir(t, v, data.corral_id)

PasoRegistrarPesaje(t, v, nombre) ==
  LET id == t.arg.id
      nuevoPeso == t.arg.nuevoPeso
  IN
  CASE nombre = "cerdo" ->
         IF id \notin DOMAIN cerdos
         THEN Rechaza(t, v, "NOT_FOUND")
         ELSE Sigue([t EXCEPT !.cerdo = <<cerdos[id]>>], v)
    [] nombre = "positivo" ->
         IF nuevoPeso <= 0 THEN Rechaza(t, v, "INVALID_WEIGHT") ELSE Sigue(t, v)
    [] nombre = "validarPeso" ->
         IF t.cerdo[1].peso_actual > 0 /\ ~ validarPeso(t.cerdo[1].peso_actual, nuevoPeso)
         THEN Rechaza(t, v, "INVALID_WEIGHT") ELSE Sigue(t, v)
    [] nombre = "update" ->
         Escribe(t, [v EXCEPT !.cerdos[id].peso_actual = nuevoPeso,
                              !.cerdos[id].ultima_fecha_pesaje = @ + 1],
                 [SinFilas EXCEPT !.cerdos = {id}])
    [] nombre = "registrarCambio" ->
         RegistrarCambioInstancia(t, v, "PESO", Texto(t.cerdo[1].peso_actual),
                                  Texto(nuevoPeso), "")
    [] nombre = "findAll" ->
         PromedioLeer(t, v, v.cerdos, t.cerdo[1].corral_id)
    [] nombre = "Corral.update" ->
         PromedioEscribir(t, v, t.cerdo[1].corral_id)

PasoCambiarEstado(t, v, nombre) ==
  LET id == t.arg.id
      nuevoEstado == t.arg.nuevoEstado
  IN
  CASE nombre = "cerdo" ->
         IF id \notin DOMAIN cerdos
         THEN Rechaza(t, v, "NOT_FOUND")
         ELSE Sigue([t EXCEPT !.cerdo = <<cerdos[id]>>], v)
    [] nombre = "decrementCorral" ->
         IF /\ DescuentaCantidades(t.cerdo[1].estado, nuevoEstado)
            /\ t.cerdo[1].corral_id \in DOMAIN v.corrales
         THEN Escribe(t, [v EXCEPT !.corrales[t.cerdo[1].corral_id].ocupacion_actual
                                     = @ - 1],
                      [SinFilas EXCEPT !.corrales = {t.cerdo[1].corral_id}])
         ELSE Sigue(t, v)
    [] nombre = "decrementLote" ->
         IF /\ DescuentaCantidades(t.cerdo[1].estado, nuevoEstado)
            /\ t.cerdo[1].lote_id \in DOMAIN v.lotes
         THEN Escribe(t, [v EXCEPT !.lotes[t.cerdo[1].lote_id].cantidad_actual = @ - 1],
                      [SinFilas EXCEPT !.lotes = {t.cerdo[1].lote_id}])
         ELSE Sigue(t, v)
    [] nombre = "registrarCambio" ->
         RegistrarCambioInstancia(t, v, "ESTADO", t.cerdo[1].estado, nuevoEstado,
                                  t.arg.observacion)
    [] nombre = "update" ->
         Escribe(t, [v EXCEPT !.cerdos[id].estado = nuevoEstado],
                 [SinFilas EXCEPT !.cerdos = {id}])

PasoTransferirCerdo(t, v, nombre) ==
  LET id == t.arg.id
      idNuevoCorral == t.arg.idNuevoCorral
  IN
  CASE nombre = "cerdo" ->
         IF id \notin DOMAIN cerdos
         THEN Rechaza(t, v, "NOT_FOUND")
         ELSE Sigue([t EXCEPT !.cerdo = <<cerdos[id]>>], v)
    [] nombre = "corralDestino" ->
         IF idNuevoCorral \notin DOMAIN corrales
         THEN Rechaza(t, v, "NOT_FOUND")
         ELSE Sigue([t EXCEPT !.corral = <<corrales[idNuevoCorral]>>], v)
    [] nombre = "capacidad" ->
         IF t.corral[1].ocupacion_actual >= t.corral[1].capacidad
         THEN Rechaza(t, v, "CORRAL_FULL") ELSE Sigue(t, v)
    [] nombre = "decrement" ->
         IF t.cerdo[1].corral_id \in DOMAIN corrales
         THEN Escribe(t, [v EXCEPT !.corrales[t.cerdo[1].corral_id].ocupacion_actual
                                     = @ - 1],
                      [SinFilas EXCEPT !.corrales = {t.cerdo[1].corral_id}])
         ELSE Sigue(t, v)
    [] nombre = "increment" ->
         IF t.cerdo[1].corral_id \in DOMAIN corrales
         THEN Escribe(t, [v EXCEPT !.corrales[idNuevoCorral].ocupacion_actual =
                                    increment(@, t.corral[1].ocupacion_actual, 1)],
                      [SinFilas EXCEPT !.corrales = {idNuevoCorral}])
         ELSE Sigue(t, v)
    [] nombre = "registrarCambio" ->
         RegistrarCambioInstancia(t, v, "CORRAL", Texto(t.cerdo[1].corral_id),
                                  Texto(idNuevoCorral), "")
    [] nombre = "update" ->
         Escribe(t, [v EXCEPT !.cerdos[id].corral_id = idNuevoCorral],
                 [SinFilas EXCEPT !.cerdos = {id}])
    [] nombre = "findAllAnterior" ->
         PromedioLeer(t, v, v.cerdos, t.cerdo[1].corral_id)
    [] nombre = "updateAnterior" ->
         PromedioEscribir(t, v, t.cerdo[1].corral_id)
    [] nombre = "findAllNuevo" ->
         PromedioLeer(t, v, v.cerdos, idNuevoCorral)
    [] nombre = "updateNuevo" ->
         PromedioEscribir(t, v, idNuevoCorral)

Paso(t, v, nombre) ==
  CASE t.op = "crearCerdo" -> PasoCrearCerdo(t, v, nombre)
    [] t.op = "registrarPesaje" -> PasoRegistrarPesaje(t, v, nombre)
    [] t.op = "cambiarEstado" -> PasoCambiarEstado(t, v, nombre)
    [] t.op = "transferirCerdo" -> PasoTransferirCerdo(t, v, nombre)

\* the callers whose open transaction holds a row of filas: a row it has
\* written, or the tag of the row it has created
Espera(k, filas) ==
  {j \in DOMAIN abiertas \ {k} :
     /\ abiertas[j] # << >>
     /\ \/ filas.lotes \cap DOMAIN abiertas[j][1].lotes # {}
        \/ filas.corrales \cap DOMAIN abiertas[j][1].corrales # {}
        \/ filas.cerdos \cap DOMAIN abiertas[j][1].cerdos # {}
        \/ \E i \in DOMAIN abiertas[j][1].nuevo :
             abiertas[j][1].nuevo[i].arete \in filas.aretes}

\* the rows of a table the transaction has written, after a statement that
\* writes the rows filas and leaves the table as tabla
Marcar(sucias, filas, tabla) == [i \in DOMAIN sucias \cup filas |-> tabla[i]]

\* the next statement of the call of caller k.  A check that throws ends the
\* call with a rollback.  A write waits while another transaction holds one
\* of its rows.  The commit puts the rows of the transaction into the store;
\* a reload that fails after it reports an error.
Avanzar(k, fault) ==
  /\ abiertas[k] # << >>
  /\ LET t == abiertas[k][1]
         nombre == Pasos(t.op)[t.paso]
         v == VistaDe(t)
     IN IF nombre = "commit"
        THEN /\ lotes' = v.lotes
             /\ corrales' = v.corrales
             /\ cerdos' = v.cerdos \o t.nuevo
             /\ abiertas' = [abiertas EXCEPT ![k] = << >>]
             /\ res' = Result(t.op, IF fault = "reload" THEN "ERROR" ELSE "OK", "commit")
        ELSE LET r == Paso(t, v, nombre) IN
             IF r.err # "OK"
             THEN /\ abiertas' = [abiertas EXCEPT ![k] = << >>]
                  /\ res' = Result(t.op, r.err, "rollback")
                  /\ UNCHANGED db
             ELSE /\ Espera(k, r.filas) = {}
                  /\ abiertas' =
                       [abiertas EXCEPT ![k] =
                          <<[r.t EXCEPT
                               !.paso = @ + 1,
                               !.lotes = Marcar(@, r.filas.lotes, r.v.lotes),
                               !.corrales = Marcar(@, r.filas.corrales, r.v.corrales),
                               !.cerdos = Marcar(@, r.filas.cerdos, r.v.cerdos)]>>]
                  /\ UNCHANGED <<db, res>>

\* ------------------------------------------------- the change log as text
\* The column observaciones as the text it is: a sequence of pieces, each a
\* word or one of the separators the template and the pattern are made of.
\* A record of the change log is [fecha, tipo, valorAnterior, valorNuevo,
\* observaciones], its values and its note sequences of pieces; a record
\* without a note has the empty note.
Fecha == "2024-01-15T10:00:00.000Z"

\* the line of the template:
\* `${fecha} - ${tipo}: ${valorAnterior} -> ${valorNuevo}` and ` (${note})`
\* when there is a note
Linea(cambio) ==
  cambio.fecha \o <<" - ", cambio.tipo, ": ">> \o cambio.valorAnterior
    \o <<" -> ">> \o cambio.valorNuevo
    \o (IF cambio.observaciones # << >>
        THEN <<" (">> \o cambio.observaciones \o <<")">> ELSE << >>)

\* registrarCambio(cerdo, cambio), the text it writes: the text of the column,
\* a line break and the new line, or the new line alone
registrarCambioTexto(observaciones, cambio) ==
  IF observaciones # << >> THEN observaciones \o <<"\n">> \o Linea(cambio)
  ELSE Linea(cambio)

\* observaciones.split('\n')
RECURSIVE split(_)
split(texto) ==
  IF \A i \in DOMAIN texto : texto[i] # "\n" THEN <<texto>>
  ELSE LET i == CHOOSE i \in DOMAIN texto :
                  texto[i] = "\n" /\ \A j \in 1..(i - 1) : texto[j] # "\n"
       IN <<SubSeq(texto, 1, i - 1)>> \o split(SubSeq(texto, i + 1, Len(texto)))

\* (?:\s*\((.*)\))?$ on the rest of a line: white space, an opening
\* parenthesis, anything, and a closing parenthesis at the end of the line
EsGrupo(resto) ==
  Len(resto) >= 2 /\ resto[1] \in {" (", "("} /\ resto[Len(resto)] = ")"

\* linea.match(/^(.+) - (PESO|ESTADO|CORRAL): (.+) -> (.+?)(?:\s*\((.*)\))?$/):
\* the date ends at piece i, the old value at piece j, the new value at piece
\* k.  (.+) takes the longest text that lets the rest match, (.+?) the
\* shortest; the note is taken when the rest is one.
match(linea) ==
  LET n == Len(linea)
      Resto(k) == SubSeq(linea, k + 1, n)
      Ok(i, j, k) ==
        /\ 1 <= i /\ i + 4 <= j /\ j + 2 <= k /\ k <= n
        /\ linea[i + 1] = " - "
        /\ linea[i + 2] \in {"PESO", "ESTADO", "CORRAL"}
        /\ linea[i + 3] = ": "
        /\ linea[j + 1] = " -> "
        /\ Resto(k) = << >> \/ EsGrupo(Resto(k))
      I == {i \in 1..n : \E j \in 1..n, k \in 1..n : Ok(i, j, k)}
  IN IF I = {} THEN << >>
     ELSE LET i == CHOOSE x \in I : \A y \in I : y <= x
              J == {j \in 1..n : \E k \in 1..n : Ok(i, j, k)}
              j == CHOOSE x \in J : \A y \in J : y <= x
              K == {k \in 1..n : Ok(i, j, k)}
              k == CHOOSE x \in K : \A y \in K : x <= y
          IN <<[fecha |-> SubSeq(linea, 1, i),
                tipo |-> linea[i + 2],
                valorAnterior |-> SubSeq(linea, i + 4, j),
                valorNuevo |-> SubSeq(linea, j + 2, k),
                observaciones |-> IF EsGrupo(Resto(k))
                                  THEN SubSeq(linea, k + 2, n - 1) ELSE << >>]>>

\* obtenerHistorial(id) on the text: the records of the lines that match, in
\* the order of the lines
RECURSIVE Registros(_)
Registros(lineas) ==
  IF lineas = << >> THEN << >>
  ELSE match(Head(lineas)) \o Registros(Tail(lineas))

obtenerHistorialTexto(observaciones) ==
  IF observaciones # << >> THEN Registros(split(observaciones)) ELSE << >>

\* ============================================================ specification
LoteIds   == 1..MaxLotes
CorralIds == 1..MaxCorrales
CerdoIds  == 1..MaxCerdos

\* lines of all change logs together
Cambios == LET RECURSIVE Suma(_)
               Suma(n) == IF n = 0 THEN 0
                          ELSE Len(cerdos[n].observaciones) + Suma(n - 1)
           IN Suma(Len(cerdos))

\* payloads of the service calls (a field an update leaves out is Undef,
\* UndefS or NoId).  Lots are created at
\* the site ENGORDE and pens are of type ENGORDE (a LECHON pen is rejected
\* there); actualizarCorral changes a pen's lot or its capacity.
LoteDataDe(cantidades) ==
  [estado : {UndefS}, sitio : {"ENGORDE"}, cantidad_inicial : cantidades,
   peso_minimo_inicial : {10, 13}, peso_promedio_inicial : {10},
   peso_maximo_inicial : {10}]

LoteData == LoteDataDe(1..MaxCant)

CorralDataDe(loteIds, capacidades) ==
  [lote_id : loteIds, capacidad : capacidades, tipo : {"ENGORDE", "LECHON"}]

CorralData == CorralDataDe(LoteIds, 0..MaxCap)

CorralUpdateData ==
  [lote_id : {NoId} \cup LoteIds, capacidad : {Undef} \cup (0..MaxCap),
   tipo : {UndefS}, ocupacion_actual : {Undef}, peso_promedio_actual : {Undef}]

\* the payload of crearCerdo may carry an estado and a peso_actual of its own
CerdoDataDe(aretes, loteIds, corralIds, pesos) ==
  [arete : aretes, lote_id : loteIds, corral_id : corralIds, peso_inicial : pesos,
   estado : {"ACTIVO"}, peso_actual : {Undef}]
  \cup
  [arete : aretes, lote_id : loteIds, corral_id : corralIds, peso_inicial : pesos,
   estado : {"VENDIDO"}, peso_actual : {12}]

CerdoData(aretes, pesos) == CerdoDataDe(aretes, LoteIds, CorralIds, pesos)

\* The service calls of one caller, one at a time, each answered before the
\* next one is made.  A call that would add a row or a change-log line beyond
\* the bounds is not made; a call that is rejected always is.
\* a fault strikes the writes or the reload of a call, which come after its
\* checks: a call its checks reject meets none
FaultsDe(err, faults) == IF err = "OK" THEN faults ELSE {"none"}

LlamadaCrearLoteDe(maxLotes, datos) ==
  \E data \in datos :
    /\ res = Idle
    /\ crearLoteError(data) # "OK" \/ Len(lotes) < maxLotes
    /\ crearLote(data)
    /\ UNCHANGED enVuelo

LlamadaCrearLote(maxLotes) == LlamadaCrearLoteDe(maxLotes, LoteData)

LlamadaCrearCorralDe(maxCorrales, datos) ==
  \E data \in datos :
    /\ res = Idle
    /\ crearCorralError(data) # "OK" \/ Len(corrales) < maxCorrales
    /\ crearCorral(data)
    /\ UNCHANGED enVuelo

LlamadaCrearCorral == LlamadaCrearCorralDe(MaxCorrales, CorralData)

LlamadaActualizarCorral ==
  \E id \in CorralIds, data \in CorralUpdateData :
    res = Idle /\ actualizarCorral(id, data) /\ UNCHANGED enVuelo

LlamadaCrearCerdoDe(maxCerdos, maxCambios, datos) ==
  \E data \in datos :
   \E fault \in FaultsDe(crearCerdoError(data), Faults) :
    /\ res = Idle
    /\ crearCerdoError(data) # "OK"
         \/ (Len(cerdos) < maxCerdos /\ Cambios < maxCambios)
    /\ crearCerdo(data, fault)
    /\ UNCHANGED enVuelo

LlamadaCrearCerdo(maxCerdos, maxCambios, aretes, pesos) ==
  LlamadaCrearCerdoDe(maxCerdos, maxCambios, CerdoData(aretes, pesos))

LlamadaRegistrarPesajeDe(maxCambios, cerdoIds, pesos) ==
  \E id \in cerdoIds, nuevoPeso \in pesos :
   \E fault \in FaultsDe(registrarPesajeError(id, nuevoPeso), Faults \ {"reload"}) :
    /\ res = Idle
    /\ registrarPesajeError(id, nuevoPeso) # "OK" \/ Cambios < maxCambios
    /\ registrarPesaje(id, nuevoPeso, fault)
    /\ UNCHANGED enVuelo

LlamadaRegistrarPesaje(maxCambios) ==
  LlamadaRegistrarPesajeDe(maxCambios, CerdoIds, PesosPesaje)

LlamadaCambiarEstado(maxCambios) ==
  \E id \in CerdoIds, nuevoEstado \in EstadosCerdo, observacion \in Notas :
   \E fault \in FaultsDe(cambiarEstadoError(id, nuevoEstado), Faults \ {"reload"}) :
    /\ res = Idle
    /\ cambiarEstadoError(id, nuevoEstado) # "OK" \/ Cambios < maxCambios
    /\ cambiarEstado(id, nuevoEstado, observacion, fault)
    /\ UNCHANGED enVuelo

LlamadaTransferirCerdoDe(maxCambios, cerdoIds, corralIds) ==
  \E idCerdo \in cerdoIds, idNuevoCorral \in corralIds :
   \E fault \in FaultsDe(transferirCerdoError(idCerdo, idNuevoCorral), Faults) :
    /\ res = Idle
    /\ transferirCerdoError(idCerdo, idNuevoCorral) # "OK" \/ Cambios < maxCambios
    /\ transferirCerdo(idCerdo, idNuevoCorral, fault)
    /\ UNCHANGED enVuelo

LlamadaTransferirCerdo(maxCambios) ==
  LlamadaTransferirCerdoDe(maxCambios, CerdoIds, CorralIds)

\* Spec: several lots, pens and pigs, a short history
Next ==
  \/ LlamadaCrearLote(MaxLotes)
  \/ LlamadaCrearCorral
  \/ LlamadaActualizarCorral
  \/ LlamadaCrearCerdo(MaxCerdos, MaxCambios, Aretes, {10})
  \/ LlamadaRegistrarPesaje(MaxCambios)
  \/ LlamadaCambiarEstado(MaxCambios)
  \/ LlamadaTransferirCerdo(MaxCambios)
  \/ sendResponse

Spec == Init /\ [][Next]_vars

\* SpecVida: the life of the pigs of one lot, a longer history
NextVida ==
  \/ LlamadaCrearLote(MaxLotesVida)
  \/ LlamadaCrearCorral
  \/ LlamadaActualizarCorral
  \/ LlamadaCrearCerdo(MaxCerdosVida, MaxCambiosVida, {"A-000001"}, {0, 10})
  \/ LlamadaRegistrarPesaje(MaxCambiosVida)
  \/ LlamadaCambiarEstado(MaxCambiosVida)
  \/ LlamadaTransferirCerdo(MaxCambiosVida)
  \/ sendResponse

SpecVida == Init /\ [][NextVida]_vars

\* SpecAlta: the admission of pigs into the pens of several lots, and what
\* the pig operations then do to them; pens hold one or two pigs
LoteIdsAlta   == 1..MaxLotesAlta
CorralIdsAlta == 1..MaxCorralesAlta

NextAlta ==
  \/ LlamadaCrearLoteDe(MaxLotesAlta, LoteDataDe({1}))
  \/ LlamadaCrearCorralDe(MaxCorralesAlta, CorralDataDe(LoteIdsAlta, {0, 1, 2}))
  \/ LlamadaCrearCerdoDe(MaxCerdosAlta, MaxCambiosAlta,
                         CerdoDataDe(Aretes, LoteIdsAlta, CorralIdsAlta, {10}))
  \/ LlamadaRegistrarPesaje(MaxCambiosAlta)
  \/ LlamadaCambiarEstado(MaxCambiosAlta)
  \/ LlamadaTransferirCerdo(MaxCambiosAlta)
  \/ sendResponse

SpecAlta == Init /\ [][NextAlta]_vars

\* SpecTraslado: the pigs of a lot are moved between its pens, which hold one
\* or two pigs
NextTraslado ==
  \/ LlamadaCrearLoteDe(MaxLotesTras, LoteDataDe({1}))
  \/ LlamadaCrearCorralDe(MaxCorralesTras, CorralDataDe(1..MaxLotesTras, {1, 2}))
  \/ LlamadaCrearCerdoDe(MaxCerdosTras, MaxCambiosTras,
                         CerdoDataDe(Aretes, 1..MaxLotesTras, 1..MaxCorralesTras, {10}))
  \/ LlamadaTransferirCerdoDe(MaxCambiosTras, 1..MaxCerdosTras, 1..MaxCorralesTras)
  \/ sendResponse

SpecTraslado == Init /\ [][NextTraslado]_vars

\* SpecHistorial: the change log of the pigs of a lot; the payload of
\* crearCerdo may carry a text for the column observaciones
CerdoDataConTexto(datos) ==
  datos \cup {Spread(data, [observaciones |-> "nota"]) : data \in datos}

NextHistorial ==
  \/ LlamadaCrearLoteDe(MaxLotesConc, LoteDataDe({1}))
  \/ LlamadaCrearCorralDe(MaxCorralesAlta, CorralDataDe(1..MaxLotesConc, {2}))
  \/ LlamadaCrearCerdoDe(MaxCerdosAlta, MaxCambiosHist,
                         CerdoDataConTexto(
                           CerdoDataDe(Aretes, 1..MaxLotesConc, CorralIdsAlta, {10})))
  \/ LlamadaRegistrarPesaje(MaxCambiosHist)
  \/ LlamadaCambiarEstado(MaxCambiosHist)
  \/ LlamadaTransferirCerdoDe(MaxCambiosHist, 1..MaxCerdosAlta, CorralIdsAlta)
  \/ sendResponse

SpecHistorial == Init /\ [][NextHistorial]_vars

\* SpecLote: one lot from its creation to after its end, with its pens and pig
LoteUpdateData ==
  [estado : {UndefS, "ACTIVO"}, sitio : {UndefS},
   cantidad_inicial : {Undef}, cantidad_actual : {Undef, 0}]

LlamadaActualizarLote ==
  \E id \in 1..MaxLotesVida, data \in LoteUpdateData :
    res = Idle /\ actualizarLote(id, data) /\ UNCHANGED enVuelo

LlamadaFinalizarLote ==
  \E id \in 1..MaxLotesVida :
    res = Idle /\ finalizarLote(id) /\ UNCHANGED enVuelo

NextLote ==
  \/ LlamadaCrearLote(MaxLotesVida)
  \/ LlamadaActualizarLote
  \/ LlamadaFinalizarLote
  \/ LlamadaCrearCorral
  \/ LlamadaCrearCerdo(MaxCerdosVida, MaxCambiosLote, {"A-000001"}, {10})
  \/ LlamadaCambiarEstado(MaxCambiosLote)
  \/ sendResponse

SpecLote == Init /\ [][NextLote]_vars

\* SpecCorral: the pens of a lot are updated through PUT /corrales/:id while
\* a pig is in them.  The controller validates the body with
\* updateCorralSchema and hands the validated value to the service.

\* updateCorralSchema.validate(body).value: a field the body leaves out and
\* the schema gives a default is set to the default
updateCorralSchema(body) ==
  [body EXCEPT !.ocupacion_actual = IF @ = Undef THEN 0 ELSE @,
               !.peso_promedio_actual = IF @ = Undef THEN 0 ELSE @]

\* bodies the schema accepts: capacidad and tipo are required, lote_id is
\* optional, ocupacion_actual is at most capacidad
CorralUpdateBody ==
  {body \in [lote_id : {NoId}, capacidad : 1..MaxCap, tipo : {"ENGORDE"},
             ocupacion_actual : {Undef, 1}, peso_promedio_actual : {Undef, 12}] :
     body.ocupacion_actual <= body.capacidad}

CorralControllerActualizar ==
  \E id \in CorralIds, body \in CorralUpdateBody :
    /\ res = Idle
    /\ actualizarCorral(id, updateCorralSchema(body))
    /\ UNCHANGED enVuelo

NextCorral ==
  \/ LlamadaCrearLote(MaxLotesVida)
  \/ LlamadaCrearCorral
  \/ CorralControllerActualizar
  \/ LlamadaCrearCerdo(MaxCerdosVida, MaxCambiosLote, {"A-000001"}, {10})
  \/ sendResponse

SpecCorral == Init /\ [][NextCorral]_vars

\* SpecReasignar: a pen is given to another lot while a pig is admitted into
\* it
LlamadaActualizarCorralVerificar ==
  \E id \in CorralIdsAlta,
     data \in [lote_id : {NoId} \cup LoteIdsAlta, capacidad : {Undef, 2},
               tipo : {UndefS}, ocupacion_actual : {Undef},
               peso_promedio_actual : {Undef}] :
    /\ res = Idle
    /\ actualizarCorralVerificar(id, data)
    /\ UNCHANGED <<enCurso, enTraslado, abiertas, bitacora>>

LlamadaActualizarCorralEscribir ==
  /\ res = Idle
  /\ actualizarCorralEscribir
  /\ UNCHANGED <<enCurso, enTraslado, abiertas, bitacora>>

NextReasignar ==
  \/ LlamadaCrearLoteDe(MaxLotesAlta, LoteDataDe({1}))
  \/ LlamadaCrearCorralDe(MaxCorralesAlta, CorralDataDe(LoteIdsAlta, {1}))
  \/ LlamadaCrearCerdoDe(MaxCerdosAlta, MaxCambiosAlta,
                         CerdoDataDe({"A-000001"}, LoteIdsAlta, CorralIdsAlta, {10}))
  \/ LlamadaActualizarCorralVerificar
  \/ LlamadaActualizarCorralEscribir
  \/ sendResponse

SpecReasignar == Init /\ [][NextReasignar]_vars

\* SpecTransaccion: a pig is transferred write by write between the pens of
\* the first lot while other callers admit and weigh pigs.  A call of another caller that writes a row the open
\* transaction has written waits for the row: it is not made before the
\* commit.
RespetaBloqueos ==
  enTraslado # << >> =>
    /\ \A c \in DOMAIN enTraslado[1].corrales : corrales'[c] = corrales[c]
    /\ \A p \in DOMAIN enTraslado[1].cerdos : cerdos'[p] = cerdos[p]

LlamadaTransferirCerdoIniciar ==
  \E idCerdo \in 1..MaxCerdosAlta, idNuevoCorral \in 1..MaxCorralesTras :
    /\ res = Idle
    /\ transferirCerdoError(idCerdo, idNuevoCorral) # "OK" \/ Cambios < MaxCambiosTx
    /\ transferirCerdoIniciar(idCerdo, idNuevoCorral)
    /\ UNCHANGED <<enCurso, enCorral, abiertas, bitacora>>

LlamadaTransferirCerdoPaso ==
  \E fault \in Faults :
    /\ res = Idle
    /\ fault = "reload" => enTraslado # << >> /\ enTraslado[1].paso > Len(EscriturasTraslado)
    /\ transferirCerdoPaso(fault)
    /\ UNCHANGED <<enCurso, enCorral, abiertas, bitacora>>

NextTransaccion ==
  \/ LlamadaCrearLoteDe(MaxLotesConc, LoteDataDe({1}))
  \/ LlamadaCrearCorralDe(MaxCorralesTras, CorralDataDe({1}, {2}))
  \/ (LlamadaCrearCerdoDe(MaxCerdosAlta, MaxCambiosTx,
                          CerdoDataDe(Aretes, {1}, 1..MaxCorralesTras, {10}))
        /\ RespetaBloqueos)
  \/ (LlamadaRegistrarPesajeDe(MaxCambiosTx, 1..MaxCerdosAlta, {13}) /\ RespetaBloqueos)
  \/ LlamadaTransferirCerdoIniciar
  \/ LlamadaTransferirCerdoPaso
  \/ sendResponse

SpecTransaccion == Init /\ [][NextTransaccion]_vars

\* SpecConcurrente: lots and pens are set up, then the crearCerdo calls of
\* several callers overlap
Llamadores == 1..MaxLlamadores

CerdosEnCurso == Cardinality({k \in Llamadores : enCurso[k] # << >>})

LlamadaCrearCerdoVerificar ==
  \E k \in Llamadores,
     data \in CerdoDataDe(Aretes, 1..MaxLotesConc, CorralIdsAlta, {10}) :
    /\ res = Idle
    /\ crearCerdoError(data) # "OK"
         \/ Len(cerdos) + CerdosEnCurso < MaxCerdosConc
    /\ crearCerdoVerificar(k, data)
    /\ UNCHANGED <<enCorral, enTraslado, abiertas, bitacora>>

LlamadaCrearCerdoEscribir ==
  \E k \in Llamadores, fault \in Faults :
    /\ res = Idle
    /\ crearCerdoEscribir(k, fault)
    /\ UNCHANGED <<enCorral, enTraslado, abiertas, bitacora>>

NextConcurrente ==
  \/ LlamadaCrearLoteDe(MaxLotesConc, LoteDataDe({1}))
  \/ LlamadaCrearCorralDe(MaxCorralesAlta,
                          CorralDataDe(1..MaxLotesConc, {0, 1, 2}))
  \/ LlamadaCrearCerdoVerificar
  \/ LlamadaCrearCerdoEscribir
  \/ sendResponse

SpecConcurrente == Init /\ [][NextConcurrente]_vars

\* SpecSitio: lots of both sites and pens of both types; a pen's type and lot
\* and a lot's site are changed after the pen is created
LoteDataSitio ==
  {[data EXCEPT !.sitio = sitio] : data \in LoteDataDe({1}), sitio \in Sitios}

LlamadaActualizarCorralTipo ==
  \E id \in CorralIdsAlta,
     data \in [lote_id : {NoId} \cup LoteIdsAlta, capacidad : {Undef},
               tipo : {UndefS, "LECHON", "ENGORDE"}, ocupacion_actual : {Undef},
               peso_promedio_actual : {Undef}] :
    res = Idle /\ actualizarCorral(id, data) /\ UNCHANGED enVuelo

LlamadaActualizarLoteSitio ==
  \E id \in LoteIdsAlta,
     data \in [estado : {UndefS}, sitio : Sitios,
               cantidad_inicial : {Undef}, cantidad_actual : {Undef}] :
    res = Idle /\ actualizarLote(id, data) /\ UNCHANGED enVuelo

NextSitio ==
  \/ LlamadaCrearLoteDe(MaxLotesAlta, LoteDataSitio)
  \/ LlamadaCrearCorralDe(MaxCorralesAlta, CorralDataDe(LoteIdsAlta, {1}))
  \/ LlamadaActualizarCorralTipo
  \/ LlamadaActualizarLoteSitio
  \/ LlamadaCrearCerdoDe(MaxCerdosAlta, MaxCambiosAlta,
                         CerdoDataDe({"A-000001"}, LoteIdsAlta, CorralIdsAlta, {10}))
  \/ sendResponse

SpecSitio == Init /\ [][NextSitio]_vars

\* SpecMarco: a pig of a lot with two pens is weighed, moved and changes its
\* state
NextMarco ==
  \/ LlamadaCrearLoteDe(MaxLotesTras, LoteDataDe({1}))
  \/ LlamadaCrearCorralDe(MaxCorralesTras, CorralDataDe({1}, {2}))
  \/ LlamadaCrearCerdoDe(MaxCerdosAlta, MaxCambiosHist,
                         CerdoDataDe({"A-000001"}, {1}, 1..MaxCorralesTras, {10}))
  \/ LlamadaRegistrarPesajeDe(MaxCambiosHist, 1..MaxCerdosAlta, {13})
  \/ LlamadaCambiarEstado(MaxCambiosHist)
  \/ LlamadaTransferirCerdoDe(MaxCambiosHist, 1..MaxCerdosAlta, 1..MaxCorralesTras)
  \/ sendResponse

SpecMarco == Init /\ [][NextMarco]_vars

\* the calls of the pig operations that run statement by statement
LlamadasCrearCerdo(datos) == {[op |-> "crearCerdo", arg |-> data] : data \in datos}

LlamadasRegistrarPesaje(cerdoIds, pesos) ==
  {[op |-> "registrarPesaje", arg |-> [id |-> id, nuevoPeso |-> nuevoPeso]] :
     id \in cerdoIds, nuevoPeso \in pesos}

LlamadasCambiarEstado(cerdoIds, estados) ==
  {[op |-> "cambiarEstado",
    arg |-> [id |-> id, nuevoEstado |-> nuevoEstado, observacion |-> ""]] :
     id \in cerdoIds, nuevoEstado \in estados}

LlamadasTransferirCerdo(cerdoIds, corralIds) ==
  {[op |-> "transferirCerdo", arg |-> [id |-> id, idNuevoCorral |-> idNuevoCorral]] :
     id \in cerdoIds, idNuevoCorral \in corralIds}

\* what the checks of a call give on the store as it is
ErrorDe(ll) ==
  CASE ll.op = "crearCerdo" -> crearCerdoError(ll.arg)
    [] ll.op = "registrarPesaje" -> registrarPesajeError(ll.arg.id, ll.arg.nuevoPeso)
    [] ll.op = "cambiarEstado" -> cambiarEstadoError(ll.arg.id, ll.arg.nuevoEstado)
    [] ll.op = "transferirCerdo" ->
         transferirCerdoError(ll.arg.id, ll.arg.idNuevoCorral)

\* the callers with a call under way, and those whose call is a crearCerdo
ConAbierta == {k \in DOMAIN abiertas : abiertas[k] # << >>}
ConAlta == {k \in ConAbierta : abiertas[k][1].op = "crearCerdo"}

\* a caller starts a call; a call that would add a row or a change-log line
\* beyond the bounds is not made
LlamadaAbrir(llamadores, llamadas, maxCerdos, maxCambios) ==
  \E k \in llamadores, ll \in llamadas :
    /\ res = Idle
    /\ abiertas[k] = << >>
    /\ ErrorDe(ll) # "OK"
         \/ /\ Cambios + Cardinality(ConAbierta) < maxCambios
            /\ ll.op = "crearCerdo" => Len(cerdos) + Cardinality(ConAlta) < maxCerdos
    /\ abiertas' = [abiertas EXCEPT ![k] = <<Abrir(ll.op, ll.arg)>>]
    /\ UNCHANGED <<db, res, enCurso, enCorral, enTraslado, bitacora>>

\* the next statement of a call; crearCerdo and transferirCerdo reload the pig
\* after the commit
LlamadaAvanzar(llamadores) ==
  \E k \in llamadores, fault \in {"none", "reload"} :
    /\ res = Idle
    /\ abiertas[k] # << >>
    /\ fault = "reload" =>
         /\ abiertas[k][1].op \in {"crearCerdo", "transferirCerdo"}
         /\ Pasos(abiertas[k][1].op)[abiertas[k][1].paso] = "commit"
    /\ Avanzar(k, fault)
    /\ UNCHANGED <<enCurso, enCorral, enTraslado, bitacora>>

\* no call is under way
SinAbiertas == ConAbierta = {}

\* SpecBaja: the pig of a pen is sold or dies, in calls of several callers
\* that overlap
NextBaja ==
  \/ LlamadaCrearLoteDe(MaxLotesConc, LoteDataDe({1}))
  \/ LlamadaCrearCorralDe(MaxCorralesAlta, CorralDataDe(1..MaxLotesConc, {1}))
  \/ (LlamadaCrearCerdoDe(MaxCerdosAlta, MaxCambiosHist,
                          CerdoDataDe({"A-000001"}, 1..MaxLotesConc, CorralIdsAlta, {10}))
        /\ SinAbiertas)
  \/ LlamadaAbrir(Llamadores, LlamadasCambiarEstado(1..MaxCerdosAlta, Terminal),
                  MaxCerdosAlta, MaxCambiosHist)
  \/ LlamadaAvanzar(Llamadores)
  \/ sendResponse

SpecBaja == Init /\ [][NextBaja]_vars

\* SpecTrasladoBaja: an ACTIVO pig is moved to another pen by one caller
\* while another caller sells it or records its death
CerdosActivos == {p \in DOMAIN cerdos : cerdos[p].estado = "ACTIVO"}

NextTrasladoBaja ==
  \/ LlamadaCrearLoteDe(MaxLotesConc, LoteDataDe({1}))
  \/ LlamadaCrearCorralDe(MaxCorralesTras, CorralDataDe(1..MaxLotesConc, {2}))
  \/ (LlamadaCrearCerdoDe(MaxCerdosAlta, MaxCambiosHist,
                          CerdoDataDe({"A-000001"}, 1..MaxLotesConc,
                                      1..MaxCorralesTras, {10}))
        /\ SinAbiertas)
  \/ LlamadaAbrir({1}, LlamadasTransferirCerdo(CerdosActivos, 1..MaxCorralesTras),
                  MaxCerdosAlta, MaxCambiosHist)
  \/ LlamadaAbrir({2}, LlamadasCambiarEstado(CerdosActivos, Terminal),
                  MaxCerdosAlta, MaxCambiosHist)
  \/ LlamadaAvanzar(Llamadores)
  \/ sendResponse

SpecTrasladoBaja == Init /\ [][NextTrasladoBaja]_vars

\* SpecPesajes: the ACTIVO pigs of one pen are weighed by several callers at
\* the same time
NextPesajes ==
  \/ LlamadaCrearLoteDe(MaxLotesConc, LoteDataDe({1}))
  \/ LlamadaCrearCorralDe(MaxCorralesAlta, CorralDataDe(1..MaxLotesConc, {2}))
  \/ (LlamadaCrearCerdoDe(MaxCerdosConc, MaxCambiosPesajes,
                          CerdoDataDe(Aretes, 1..MaxLotesConc, CorralIdsAlta, {10}))
        /\ SinAbiertas)
  \/ LlamadaAbrir(Llamadores, LlamadasRegistrarPesaje(CerdosActivos, {13}),
                  MaxCerdosConc, MaxCambiosPesajes)
  \/ LlamadaAvanzar(Llamadores)
  \/ sendResponse

SpecPesajes == Init /\ [][NextPesajes]_vars

\* SpecContadores: the lots are set up, then the pens, then pigs are admitted
\* into the pens of lot 1 by every caller and die in calls of caller 1, and
\* the calls overlap
CerdoDataSimple(aretes, loteIds, corralIds) ==
  [arete : aretes, lote_id : loteIds, corral_id : corralIds, peso_inicial : {10},
   estado : {"ACTIVO"}, peso_actual : {Undef}]

\* the tag on the pigs caller k admits
AreteDe(k) == IF k % 2 = 1 THEN "A-000001" ELSE "A-000002"

NextContadores ==
  \/ LlamadaCrearLoteDe(MaxLotesConc,
                        {d \in LoteDataDe({1}) : d.peso_minimo_inicial = 10})
       /\ cerdos = << >> /\ SinAbiertas
  \/ LlamadaCrearCorralDe(MaxCorralesAlta,
                          {d \in CorralDataDe({1}, {3}) : d.tipo = "ENGORDE"})
       /\ Len(lotes) = MaxLotesConc /\ cerdos = << >> /\ SinAbiertas
  \/ \E k \in Llamadores :
       LlamadaAbrir({k},
                    LlamadasCrearCerdo(CerdoDataSimple({AreteDe(k)}, {1}, CorralIdsAlta)),
                    MaxCerdosConc, MaxCambiosCont)
  \/ LlamadaAbrir({1}, LlamadasCambiarEstado(CerdosActivos, {"MUERTO"}),
                  MaxCerdosConc, MaxCambiosCont)
  \/ LlamadaAvanzar(Llamadores)
  \/ sendResponse

SpecContadores == Init /\ [][NextContadores]_vars

\* SpecVerificar: one caller admits, weighs, moves and records the death of
\* the pigs of pens that hold one pig each, with payloads that name lots,
\* pens and pigs that do not exist, tags that are taken and weights that are
\* not valid
NextVerificar ==
  \/ LlamadaCrearLoteDe(MaxLotesTras,
                        {d \in LoteDataDe({1}) : d.peso_minimo_inicial = 10})
  \/ LlamadaCrearCorralDe(MaxCorralesTras,
                          {d \in CorralDataDe(1..MaxLotesTras, {1}) : d.tipo = "ENGORDE"})
  \/ LlamadaAbrir({1},
                  LlamadasCrearCerdo(CerdoDataSimple(Aretes, {1, MaxLotesTras + 1},
                                                     1..MaxCorralesTras)),
                  MaxCerdosTras, MaxCambiosTras)
  \/ LlamadaAbrir({1}, LlamadasRegistrarPesaje(1..MaxCerdosTras, PesosPesaje),
                  MaxCerdosTras, MaxCambiosTras)
  \/ LlamadaAbrir({1}, LlamadasCambiarEstado(1..MaxCerdosTras, {"MUERTO"}),
                  MaxCerdosTras, MaxCambiosTras)
  \/ LlamadaAbrir({1}, LlamadasTransferirCerdo(1..MaxCerdosTras, 1..MaxCorralesTras),
                  MaxCerdosTras, MaxCambiosTras)
  \/ LlamadaAvanzar({1})
  \/ sendResponse

SpecVerificar == Init /\ [][NextVerificar]_vars

\* SpecTexto: records are appended to the text of a pig that was created with
\* or without a note of its own, and the history is read back
NotasIniciales == {<< >>, <<"a">>}

\* notes of a word, with parentheses, with ' -> ', with ' - ' and with a line
\* break
NotasTexto ==
  {<< >>, <<"a">>, <<"(", "a", ")">>, <<"a", " -> ", "b">>, <<"a", " - ", "b">>,
   <<"a", "\n", "b">>}

\* the records the operations append: the old and new weight with the note of
\* crearCerdo or none, the old and new pen, the old and new state with the
\* note of the caller
CambiosTexto ==
  LET cambio(tipo, valorAnterior, valorNuevo, nota) ==
        [fecha |-> <<Fecha>>, tipo |-> tipo, valorAnterior |-> <<valorAnterior>>,
         valorNuevo |-> <<valorNuevo>>, observaciones |-> nota]
  IN {cambio("PESO", Texto(10), Texto(13), << >>),
      cambio("PESO", Texto(0), Texto(10), <<"Peso inicial al crear cerdo">>),
      cambio("CORRAL", Texto(1), Texto(2), << >>)}
       \cup {cambio("ESTADO", "ACTIVO", "ENFERMO", nota) : nota \in NotasTexto}

InitTexto ==
  /\ lotes = << >>
  /\ corrales = << >>
  /\ cerdos = << >>
  /\ res = Idle
  /\ enCurso = [k \in 1..MaxLlamadores |-> << >>]
  /\ enCorral = << >>
  /\ enTraslado = << >>
  /\ abiertas = [k \in 1..MaxLlamadores |-> << >>]
  /\ \E nota \in NotasIniciales :
       bitacora = [observaciones |-> nota, cambios |-> << >>, historial |-> << >>]

LlamadaRegistrarCambio ==
  \E cambio \in CambiosTexto :
    /\ Len(bitacora.cambios) < MaxCambiosTexto
    /\ bitacora' = [observaciones |->
                      registrarCambioTexto(bitacora.observaciones, cambio),
                    cambios |-> Append(bitacora.cambios, cambio),
                    historial |-> << >>]
    /\ UNCHANGED <<db, res, enCurso, enCorral, enTraslado, abiertas>>

LlamadaObtenerHistorial ==
  /\ bitacora.historial = << >>
  /\ bitacora' = [bitacora EXCEPT
                    !.historial = <<obtenerHistorialTexto(bitacora.observaciones)>>]
  /\ UNCHANGED <<db, res, enCurso, enCorral, enTraslado, abiertas>>

NextTexto == LlamadaRegistrarCambio \/ LlamadaObtenerHistorial

SpecTexto == InitTexto /\ [][NextTexto]_vars

\* ================================================================== properties
CerdoOps == {"crearCerdo", "registrarPesaje", "cambiarEstado", "transferirCerdo"}

\* C1: every pen has 0 <= ocupacion_actual <= capacidad after every
\* committed operation.
C1_OcupacionEnRango ==
  \A c \in DOMAIN corrales :
    /\ 0 <= corrales[c].ocupacion_actual
    /\ corrales[c].ocupacion_actual <= corrales[c].capacidad

\* C2: every lot has 0 <= cantidad_actual <= cantidad_inicial after every
\* committed operation.
C2_CantidadEnRango ==
  \A l \in DOMAIN lotes :
    /\ 0 <= lotes[l].cantidad_actual
    /\ lotes[l].cantidad_actual <= lotes[l].cantidad_inicial

\* C3: the pen a pig is located in belongs to the pig's own lot, always.
C3_CorralDelLote ==
  \A p \in DOMAIN cerdos :
    corrales[cerdos[p].corral_id].lote_id = cerdos[p].lote_id

\* C4: a pig operation that returns an error leaves every pen's occupancy and
\* average weight, every lot's live count and every pig's weight, state, pen
\* and change log as they were before the call.
C4_ErrorSinCambios ==
  [][(res'.op \in CerdoOps /\ res'.err # "OK") =>
       /\ \A c \in DOMAIN corrales :
            /\ corrales'[c].ocupacion_actual = corrales[c].ocupacion_actual
            /\ corrales'[c].peso_promedio_actual = corrales[c].peso_promedio_actual
       /\ \A l \in DOMAIN lotes :
            lotes'[l].cantidad_actual = lotes[l].cantidad_actual
       /\ \A p \in DOMAIN cerdos :
            /\ cerdos'[p].peso_actual = cerdos[p].peso_actual
            /\ cerdos'[p].estado = cerdos[p].estado
            /\ cerdos'[p].corral_id = cerdos[p].corral_id
            /\ cerdos'[p].observaciones = cerdos[p].observaciones]_vars

\* C5: cambiarEstado on a VENDIDO or MUERTO pig is rejected with
\* InvalidTransition whatever the new state, and the pig's state, its pen's
\* occupancy and its lot's live count stay as they were.
C5_TerminalRechazaEstado ==
  [][\A id \in CerdoIds, e \in EstadosCerdo, o \in Notas :
       (/\ res = Idle
        /\ id \in DOMAIN cerdos
        /\ cerdos[id].estado \in Terminal
        /\ cambiarEstado(id, e, o, "none"))
       => /\ res'.err = "INVALID_TRANSITION"
          /\ cerdos'[id].estado = cerdos[id].estado
          /\ corrales'[cerdos[id].corral_id].ocupacion_actual
               = corrales[cerdos[id].corral_id].ocupacion_actual
          /\ lotes'[cerdos[id].lote_id].cantidad_actual
               = lotes[cerdos[id].lote_id].cantidad_actual]_vars

\* C6: registrarPesaje on a VENDIDO or MUERTO pig is rejected with
\* InvalidTransition and leaves the pig's weight, last-weighing stamp and
\* change log as they were (stated for a weight that passes the weight
\* checks, so that the pig's state is the only ground to reject the call).
C6_TerminalRechazaPesaje ==
  [][\A id \in CerdoIds, w \in PesosPesaje :
       (/\ res = Idle
        /\ id \in DOMAIN cerdos
        /\ cerdos[id].estado \in Terminal
        /\ w > 0
        /\ validarPeso(cerdos[id].peso_actual, w)
        /\ registrarPesaje(id, w, "none"))
       => /\ res'.err = "INVALID_TRANSITION"
          /\ cerdos'[id].peso_actual = cerdos[id].peso_actual
          /\ cerdos'[id].ultima_fecha_pesaje = cerdos[id].ultima_fecha_pesaje
          /\ cerdos'[id].observaciones = cerdos[id].observaciones]_vars

\* C7: transferirCerdo on a VENDIDO or MUERTO pig is rejected with
\* InvalidTransition, and the occupancy of the origin and of the target pen
\* and the pig's pen stay as they were (stated for a target pen that exists
\* and has room, so that the pig's state is the only ground to reject).
C7_TerminalRechazaTransferencia ==
  [][\A id \in CerdoIds, c \in CorralIds :
       (/\ res = Idle
        /\ id \in DOMAIN cerdos
        /\ c \in DOMAIN corrales
        /\ corrales[c].ocupacion_actual < corrales[c].capacidad
        /\ cerdos[id].estado \in Terminal
        /\ transferirCerdo(id, c, "none"))
       => /\ res'.err = "INVALID_TRANSITION"
          /\ cerdos'[id].corral_id = cerdos[id].corral_id
          /\ corrales'[cerdos[id].corral_id].ocupacion_actual
               = corrales[cerdos[id].corral_id].ocupacion_actual
          /\ corrales'[c].ocupacion_actual = corrales[c].ocupacion_actual]_vars

\* the change log shows that a committed cambiarEstado already took the pig
\* out of ACTIVO into VENDIDO or MUERTO (the step that lowers the counters)
YaDescontado(id) ==
  \E i \in DOMAIN cerdos[id].observaciones :
    LET linea == cerdos[id].observaciones[i] IN
    /\ linea.tipo = "ESTADO"
    /\ DescuentaCantidades(linea.valorAnterior, linea.valorNuevo)

\* C8: over any sequence of cambiarEstado calls on one pig the pen's
\* occupancy and the lot's live count are lowered on account of that pig at
\* most once: once they were, no later cambiarEstado on the pig lowers them.
C8_UnaSolaBaja ==
  [][\A id \in CerdoIds, e \in EstadosCerdo, o \in Notas :
       (/\ res = Idle
        /\ id \in DOMAIN cerdos
        /\ YaDescontado(id)
        /\ cambiarEstado(id, e, o, "none"))
       => /\ \A c \in DOMAIN corrales :
               corrales'[c].ocupacion_actual >= corrales[c].ocupacion_actual
          /\ \A l \in DOMAIN lotes :
               lotes'[l].cantidad_actual >= lotes[l].cantidad_actual]_vars

\* C9: a successful cambiarEstado from ACTIVO or ENFERMO to VENDIDO or MUERTO
\* lowers the occupancy of the pig's pen by exactly 1 and the live count of
\* the pig's lot by exactly 1.
C9_BajaDescuentaUno ==
  [][\A id \in CerdoIds, e \in Terminal, o \in Notas :
       (/\ res = Idle
        /\ id \in DOMAIN cerdos
        /\ cerdos[id].estado \in {"ACTIVO", "ENFERMO"}
        /\ cambiarEstado(id, e, o, "none")
        /\ res'.err = "OK")
       => /\ corrales'[cerdos[id].corral_id].ocupacion_actual
               = corrales[cerdos[id].corral_id].ocupacion_actual - 1
          /\ lotes'[cerdos[id].lote_id].cantidad_actual
               = lotes[cerdos[id].lote_id].cantidad_actual - 1]_vars

\* the transition table of the life-state machine
TransicionesValidas ==
  {<<"ACTIVO", "VENDIDO">>, <<"ACTIVO", "MUERTO">>, <<"ACTIVO", "ENFERMO">>,
   <<"ENFERMO", "ACTIVO">>, <<"ENFERMO", "VENDIDO">>, <<"ENFERMO", "MUERTO">>}

\* C10: cambiarEstado succeeds exactly for the pairs (current, new) of the
\* transition table; for every other pair, a same-state request included, it
\* fails with InvalidTransition and the pig's state stays as it was.
C10_SoloTransicionesValidas ==
  [][\A id \in CerdoIds, e \in EstadosCerdo, o \in Notas :
       (/\ res = Idle
        /\ id \in DOMAIN cerdos
        /\ cambiarEstado(id, e, o, "none"))
       => IF <<cerdos[id].estado, e>> \in TransicionesValidas
          THEN res'.err = "OK"
          ELSE /\ res'.err = "INVALID_TRANSITION"
               /\ cerdos'[id].estado = cerdos[id].estado]_vars

\* the payloads of crearCerdo that name a lot and a pen of the store, or the
\* first id after them, which no row has
IdsLote == 1..(Len(lotes) + 1)
IdsCorral == 1..(Len(corrales) + 1)
CargasCerdo == CerdoDataDe(Aretes, IdsLote, IdsCorral, {0, 10})

C12_CantidadNoCrece ==
  [][\A l \in DOMAIN lotes :
       lotes'[l].cantidad_actual <= lotes[l].cantidad_actual]_vars

\* the store is as it was before the step
SinCambios == lotes' = lotes /\ corrales' = corrales /\ cerdos' = cerdos

\* the pens whose ocupacion_actual equals their capacidad
Llenos == {c \in DOMAIN corrales :
             corrales[c].ocupacion_actual = corrales[c].capacidad}

\* C13: crearCerdo into a pen whose ocupacion_actual equals its capacidad is
\* rejected and creates no pig and changes no counter; the error is
\* CORRAL_FULL when the lot exists and the pen belongs to it (the checks that
\* come before the capacity check).  Stated step by step: a step of
\* crearCerdo that is not such a rejection is not the step of a call that
\* names a full pen.
C13_CorralLlenoRechaza ==
  [][(res = Idle /\ res'.op = "crearCerdo") =>
     /\ ~ (res'.err # "OK" /\ res'.tx = "rollback" /\ SinCambios)
        => \A data \in CerdoDataDe(Aretes, IdsLote, Llenos, {0, 10}),
              fault \in Faults : ~ crearCerdo(data, fault)
     /\ ~ (res'.err = "CORRAL_FULL" /\ res'.tx = "rollback" /\ SinCambios)
        => \A c \in Llenos :
             \A data \in CerdoDataDe(Aretes, {corrales[c].lote_id}, {c}, {0, 10}),
                fault \in Faults : ~ crearCerdo(data, fault)]_vars

\* a crearCerdo has just been rejected for a full pen
C13_Testigo ==
  /\ res = Result("crearCerdo", "CORRAL_FULL", "rollback")
  /\ \E c \in DOMAIN corrales :
       corrales[c].ocupacion_actual = corrales[c].capacidad

\* C14: crearCerdo with a pen that does not belong to the lot of the payload is
\* rejected, creating no pig and changing no counter (a step of crearCerdo
\* that is not a rejection is not the step of a call that names a pen of
\* another lot); the pig a crearCerdo creates is in a pen of its own lot.
C14_CorralAjenoRechaza ==
  [][(res = Idle /\ res'.op = "crearCerdo") =>
     /\ ~ (res'.err # "OK" /\ res'.tx = "rollback" /\ SinCambios)
        => \A c \in DOMAIN corrales :
             \A data \in CerdoDataDe(Aretes, IdsLote \ {corrales[c].lote_id},
                                     {c}, {0, 10}),
                fault \in Faults : ~ crearCerdo(data, fault)
     /\ Len(cerdos') > Len(cerdos)
        => corrales'[cerdos'[Len(cerdos')].corral_id].lote_id
             = cerdos'[Len(cerdos')].lote_id]_vars

\* every lot and pen a payload can name exists, so that the NOT_FOUND just
\* returned by crearCerdo is the one for a pen of another lot
C14_Testigo ==
  /\ res = Result("crearCerdo", "NOT_FOUND", "rollback")
  /\ Len(lotes) = MaxLotesAlta
  /\ Len(corrales) = MaxCorralesAlta
  /\ \E c \in DOMAIN corrales : corrales[c].lote_id # 1

AretesUnicos ==
  \A p, q \in DOMAIN cerdos : p # q => cerdos[p].arete # cerdos[q].arete

\* C15: no two pigs ever share an arete.  A crearCerdo call whose tag is in
\* use when its checks run (and which passes the checks before that one) is
\* rejected with DUPLICATE_ARETE and changes nothing (a step that changes
\* nothing and does not end in DUPLICATE_ARETE is not the step of such a
\* call); of the calls with one tag that run at the same time at most one
\* commits: the write of a call whose tag has been taken in the meantime
\* changes nothing.
C15_AreteUnico ==
  /\ []AretesUnicos
  /\ [][res = Idle =>
          /\ (SinCambios /\ res'.err # "DUPLICATE_ARETE") =>
               \A data \in CerdoDataDe({cerdos[p].arete : p \in DOMAIN cerdos},
                                       IdsLote, IdsCorral, {10}) :
                 crearCerdoError(data) \notin {"NOT_FOUND", "CORRAL_FULL"}
                 => \A k \in Llamadores : ~ crearCerdoVerificar(k, data)
          /\ \A k \in Llamadores, fault \in Faults :
               (/\ enCurso[k] # << >>
                /\ \E p \in DOMAIN cerdos : cerdos[p].arete = enCurso[k][1].arete
                /\ crearCerdoEscribir(k, fault))
               => (res'.err # "OK" /\ SinCambios)]_vars

\* the write of a call has just been refused because a call that ran at the
\* same time took its tag
C15_Testigo ==
  /\ res = Result("crearCerdo", "SequelizeUniqueConstraintError", "rollback")
  /\ Len(cerdos) >= 1
  /\ AretesUnicos

Finalizados == {l \in DOMAIN lotes : lotes[l].estado = "FINALIZADO"}

\* C16: crearCerdo into a lot whose estado is FINALIZADO is rejected: no pig is
\* created and the occupancy of the pen and the live count of the lot stay as
\* they were.
C16_LoteFinalizadoNoAdmite ==
  [][(res = Idle /\ res'.op = "crearCerdo") =>
     \A data \in CerdoDataDe(Aretes, Finalizados, IdsCorral, {0, 10}),
        fault \in Faults :
       crearCerdo(data, fault) => (res'.err # "OK" /\ SinCambios)]_vars

\* C17: once a lot is FINALIZADO, cambiarEstado on a pig of that lot is
\* rejected, and the lot's live count and the pig's estado stay as they were.
C17_LoteFinalizadoNoCambia ==
  [][(res = Idle /\ res'.op = "cambiarEstado") =>
     \A id \in DOMAIN cerdos, nuevoEstado \in EstadosCerdo,
        observacion \in Notas, fault \in Faults :
       (/\ cerdos[id].lote_id \in Finalizados
        /\ cambiarEstado(id, nuevoEstado, observacion, fault))
       => /\ res'.err # "OK"
          /\ cerdos'[id].estado = cerdos[id].estado
          /\ lotes'[cerdos[id].lote_id].cantidad_actual
               = lotes[cerdos[id].lote_id].cantidad_actual]_vars

\* C18: registrarPesaje(id, w) on a pig that is neither VENDIDO nor MUERTO and
\* whose weight p is above 0 is accepted exactly when w > 0 and
\* |w - p| / p <= 0.30 (a variation of exactly 30% is accepted): when accepted
\* the pig's peso_actual becomes w, otherwise the call fails with
\* INVALID_WEIGHT and peso_actual stays p.
C18_PesajeTreintaPorCiento ==
  [][(res = Idle /\ res'.op = "registrarPesaje") =>
     \A id \in DOMAIN cerdos, w \in PesosPesaje :
       (/\ cerdos[id].estado \notin Terminal
        /\ cerdos[id].peso_actual > 0
        /\ registrarPesaje(id, w, "none"))
       => IF w > 0 /\ 10 * Abs(w - cerdos[id].peso_actual)
                        <= 3 * cerdos[id].peso_actual
          THEN res'.err = "OK" /\ cerdos'[id].peso_actual = w
          ELSE /\ res'.err = "INVALID_WEIGHT"
               /\ cerdos'[id].peso_actual = cerdos[id].peso_actual]_vars

\* a weighing of exactly 30% more (10 -> 13) has just been accepted
C18_Testigo ==
  /\ res = Result("registrarPesaje", "OK", "commit")
  /\ \E id \in DOMAIN cerdos :
       /\ cerdos[id].estado \notin Terminal
       /\ cerdos[id].peso_actual = 13
       /\ cerdos[id].observaciones[Len(cerdos[id].observaciones)]
            = [tipo |-> "PESO", valorAnterior |-> "10", valorNuevo |-> "13",
               observaciones |-> ""]

\* C19: in every reachable state the peso_actual of every pig is above 0, right
\* after crearCerdo and after every registrarPesaje too.
C19_PesoPositivo ==
  \A p \in DOMAIN cerdos : cerdos[p].peso_actual > 0

\* C20: the peso_promedio_actual a pen stores is the mean of the peso_actual of
\* the ACTIVO pigs now in the pen, and 0 when the pen holds no ACTIVO pig.
C20_PromedioAlDia ==
  \A c \in DOMAIN corrales :
    corrales[c].peso_promedio_actual =
      IF Activos(cerdos, c) = {} THEN Cero
      ELSE Fraccion(SumaPesos(cerdos, Activos(cerdos, c)),
                    Cardinality(Activos(cerdos, c)))

\* the occupancy of all pens together
SumaOcupacion(cors) ==
  LET RECURSIVE Suma(_)
      Suma(n) == IF n = 0 THEN 0 ELSE cors[n].ocupacion_actual + Suma(n - 1)
  IN Suma(Len(cors))

C23_DestinoLlenoRechaza ==
  [][(res = Idle /\ res'.op = "transferirCerdo") =>
     \A idCerdo \in DOMAIN cerdos, c \in Llenos, fault \in Faults :
       transferirCerdo(idCerdo, c, fault) =>
         /\ res'.err = "CORRAL_FULL"
         /\ res'.tx = "rollback"
         /\ SinCambios]_vars

\* the transfer of a pig to another pen, which is full, has just been rejected
C23_Testigo ==
  /\ res = Result("transferirCerdo", "CORRAL_FULL", "rollback")
  /\ \E p \in DOMAIN cerdos, c \in Llenos :
       /\ c # cerdos[p].corral_id
       /\ \E q \in DOMAIN cerdos : cerdos[q].corral_id = c

\* C22: transferirCerdo to a pen that belongs to another lot than the pig's is
\* rejected, and the pig's corral_id and the occupancy of both pens stay as
\* they were (stated for a target pen that has room and a pig that is ACTIVO,
\* so that the lot of the pen is the only ground to reject the call).
C22_DestinoAjenoRechaza ==
  [][(res = Idle /\ res'.op = "transferirCerdo") =>
     \A idCerdo \in DOMAIN cerdos, c \in DOMAIN corrales :
       (/\ cerdos[idCerdo].estado = "ACTIVO"
        /\ corrales[cerdos[idCerdo].corral_id].lote_id = cerdos[idCerdo].lote_id
        /\ corrales[c].lote_id # cerdos[idCerdo].lote_id
        /\ corrales[c].ocupacion_actual < corrales[c].capacidad
        /\ transferirCerdo(idCerdo, c, "none"))
       => /\ res'.err # "OK"
          /\ cerdos'[idCerdo].corral_id = cerdos[idCerdo].corral_id
          /\ corrales'[cerdos[idCerdo].corral_id].ocupacion_actual
               = corrales[cerdos[idCerdo].corral_id].ocupacion_actual
          /\ corrales'[c].ocupacion_actual = corrales[c].ocupacion_actual]_vars

\* C28: the end of a lot is one-way: no step of any operation takes a lot that
\* is FINALIZADO back to ACTIVO, and finalizarLote on a lot that is FINALIZADO
\* fails and leaves the lot as it was.
C28_FinalizacionSinRetorno ==
  [][/\ \A l \in Finalizados : lotes'[l].estado = "FINALIZADO"
     /\ (res = Idle /\ res'.op = "finalizarLote") =>
          \A id \in Finalizados :
            finalizarLote(id) => (res'.err = "ERROR" /\ SinCambios)]_vars

\* C30: actualizarCorral, whatever fields its payload carries, leaves the
\* ocupacion_actual and the peso_promedio_actual of every pen as they were, and
\* the pen crearCorral creates has occupancy 0 and average weight 0.
C30_CorralSoloPorCerdos ==
  [][/\ (res = Idle /\ res'.op = "actualizarCorral") =>
          \A c \in DOMAIN corrales :
            /\ corrales'[c].ocupacion_actual = corrales[c].ocupacion_actual
            /\ corrales'[c].peso_promedio_actual = corrales[c].peso_promedio_actual
     /\ (res = Idle /\ res'.op = "crearCorral" /\ Len(corrales') > Len(corrales)) =>
          /\ corrales'[Len(corrales')].ocupacion_actual = 0
          /\ corrales'[Len(corrales')].peso_promedio_actual = Cero]_vars

\* the field and the two values of the record an operation owes the log of a
\* pig that was antes before the call and is despues after it
RegistroDe(op, antes, despues) ==
  CASE op = "registrarPesaje" ->
         <<"PESO", Texto(antes.peso_actual), Texto(despues.peso_actual)>>
    [] op = "cambiarEstado" -> <<"ESTADO", antes.estado, despues.estado>>
    [] op = "transferirCerdo" ->
         <<"CORRAL", Texto(antes.corral_id), Texto(despues.corral_id)>>

CamposDe(linea) == <<linea.tipo, linea.valorAnterior, linea.valorNuevo>>

\* C26: a crearCerdo, registrarPesaje, cambiarEstado or transferirCerdo that
\* returns OK appends exactly one record to the log of its pig and none to
\* any other log: its field is PESO, ESTADO or CORRAL and its two values are
\* those before and after the operation (PESO 0 -> peso_inicial for
\* crearCerdo); one that returns an error appends none and creates no pig.
C26_UnRegistroPorOperacion ==
  [][(res = Idle /\ res'.op \in CerdoOps) =>
     IF res'.err # "OK"
     THEN /\ Len(cerdos') = Len(cerdos)
          /\ \A p \in DOMAIN cerdos :
               obtenerHistorial(cerdos', p) = obtenerHistorial(cerdos, p)
     ELSE IF res'.op = "crearCerdo"
     THEN /\ Len(cerdos') = Len(cerdos) + 1
          /\ \A p \in DOMAIN cerdos :
               obtenerHistorial(cerdos', p) = obtenerHistorial(cerdos, p)
          /\ Len(obtenerHistorial(cerdos', Len(cerdos'))) = 1
          /\ CamposDe(obtenerHistorial(cerdos', Len(cerdos'))[1])
               = <<"PESO", Texto(0), Texto(cerdos'[Len(cerdos')].peso_inicial)>>
     ELSE /\ Len(cerdos') = Len(cerdos)
          /\ \E p \in DOMAIN cerdos :
               /\ Len(obtenerHistorial(cerdos', p)) = Len(obtenerHistorial(cerdos, p)) + 1
               /\ SubSeq(obtenerHistorial(cerdos', p), 1, Len(obtenerHistorial(cerdos, p)))
                    = obtenerHistorial(cerdos, p)
               /\ CamposDe(obtenerHistorial(cerdos', p)[Len(obtenerHistorial(cerdos', p))])
                    = RegistroDe(res'.op, cerdos[p], cerdos'[p])
               /\ \A q \in DOMAIN cerdos \ {p} :
                    obtenerHistorial(cerdos', q) = obtenerHistorial(cerdos, q)]_vars

\* s is the beginning of t
EsPrefijo(s, t) == Len(s) <= Len(t) /\ SubSeq(t, 1, Len(s)) = s

\* the field of the record an operation appends
CampoDe(op) ==
  CASE op \in {"crearCerdo", "registrarPesaje"} -> "PESO"
    [] op = "cambiarEstado" -> "ESTADO"
    [] op = "transferirCerdo" -> "CORRAL"

C25_UnSoloIngreso ==
  /\ [](\A c \in DOMAIN corrales :
          corrales[c].ocupacion_actual <= corrales[c].capacidad)
  /\ [][res = Idle =>
          \A k \in Llamadores, fault \in Faults :
            (/\ enCurso[k] # << >>
             /\ enCurso[k][1].corral_id \in Llenos
             /\ crearCerdoEscribir(k, fault))
            => (res'.tx # "commit" /\ SinCambios)]_vars

\* C29: a pen that holds at least one pig is never given to another lot: no
\* step of any operation changes the lote_id of a pen a pig refers to, also
\* when a pig is admitted into the pen while the update of the pen is under
\* way.
C29_CorralConCerdosNoCambiaDeLote ==
  [][\A c \in DOMAIN corrales :
       CerdosCount(c) > 0 => corrales'[c].lote_id = corrales[c].lote_id]_vars

\* C24: what the other callers can read, the store, shows a transferirCerdo
\* either not at all or whole.  While the transaction of a transfer is open
\* the pig is in the store where it was; a step of the transfer that is not
\* its commit leaves the store as it is; its commit takes 1 from the occupancy
\* of the pen the pig leaves, adds 1 to that of the target pen, sets the pig's
\* corral_id to the target pen and leaves both average weights as their
\* recomputation from the pigs then in the store gives them.
C24_TransferenciaAtomica ==
  /\ [](enTraslado # << >> =>
          cerdos[enTraslado[1].idCerdo].corral_id = enTraslado[1].corralAnterior)
  /\ [][(enTraslado' # enTraslado /\ enTraslado # << >>) =>
          LET t == enTraslado[1]
              origen == t.corralAnterior
              destino == t.idNuevoCorral
          IN IF res'.op = "transferirCerdo" /\ res'.tx = "commit"
             THEN /\ cerdos'[t.idCerdo].corral_id = destino
                  /\ origen # destino =>
                       /\ corrales'[origen].ocupacion_actual
                            = corrales[origen].ocupacion_actual - 1
                       /\ corrales'[destino].ocupacion_actual
                            = corrales[destino].ocupacion_actual + 1
                  /\ \A c \in {origen, destino} :
                       actualizarPesoPromedioCorral(cerdos', corrales', c) = corrales'
             ELSE SinCambios]_vars

\* every write of a transfer to another pen is made and none is committed: the
\* store shows the pig in the pen it leaves, the transaction in the target pen
C24_Testigo ==
  /\ enTraslado # << >>
  /\ enTraslado[1].paso > Len(EscriturasTraslado)
  /\ enTraslado[1].corralAnterior # enTraslado[1].idNuevoCorral
  /\ cerdos[enTraslado[1].idCerdo].corral_id = enTraslado[1].corralAnterior
  /\ Vista(cerdos, enTraslado[1].cerdos)[enTraslado[1].idCerdo].corral_id
       = enTraslado[1].idNuevoCorral
  /\ corrales[enTraslado[1].idNuevoCorral].ocupacion_actual + 1
       = Vista(corrales, enTraslado[1].corrales)[enTraslado[1].idNuevoCorral].ocupacion_actual

\* the pens whose type does not go with the site of their lot
Incompatibles ==
  {c \in DOMAIN corrales :
     corrales[c].tipo = "LECHON" /\ lotes[corrales[c].lote_id].sitio # "LECHON"}

\* C31: in every reachable state the type of every pen goes with the site of
\* its lot (a pen of type LECHON belongs to a lot whose site is LECHON), after
\* crearCorral, actualizarCorral and actualizarLote too, and crearCerdo
\* rejects the admission of a pig into a pen whose type does not.
C31_TipoCompatibleConSitio ==
  /\ [](Incompatibles = {})
  /\ [][(res = Idle /\ res'.op = "crearCerdo") =>
          \A data \in CerdoDataDe(Aretes, IdsLote, Incompatibles, {10}),
             fault \in Faults :
            crearCerdo(data, fault) => (res'.err # "OK" /\ SinCambios)]_vars

\* the pigs located in pen c that are neither VENDIDO nor MUERTO
EnCorral(c) ==
  {p \in DOMAIN cerdos : cerdos[p].corral_id = c /\ cerdos[p].estado \notin Terminal}

\* C32: after every committed operation the ocupacion_actual of every pen is
\* the number of pigs whose corral_id is the pen and whose estado is ACTIVO or
\* ENFERMO, also after an ENFERMO pig is sold or dies and after a MUERTO pig is
\* asked back to ACTIVO.
C32_OcupacionCuentaCerdos ==
  \A c \in DOMAIN corrales :
    corrales[c].ocupacion_actual = Cardinality(EnCorral(c))

\* C33: the peso_actual of a pig is changed only by registrarPesaje and its
\* corral_id only by transferirCerdo.  A step of cambiarEstado leaves the
\* weight and the pen of every pig as they were; a step of registrarPesaje
\* the state and the pen of every pig, the occupancy of every pen and the live
\* count of every lot; a step of transferirCerdo the weight and the state of
\* every pig.
C33_SoloPesajeYTraslado ==
  [][/\ \A p \in DOMAIN cerdos :
          /\ cerdos'[p].peso_actual # cerdos[p].peso_actual
               => res'.op = "registrarPesaje"
          /\ cerdos'[p].corral_id # cerdos[p].corral_id
               => res'.op = "transferirCerdo"
     /\ (res = Idle /\ res'.op = "cambiarEstado") =>
          \A p \in DOMAIN cerdos :
            /\ cerdos'[p].peso_actual = cerdos[p].peso_actual
            /\ cerdos'[p].corral_id = cerdos[p].corral_id
     /\ (res = Idle /\ res'.op = "registrarPesaje") =>
          /\ \A p \in DOMAIN cerdos :
               /\ cerdos'[p].estado = cerdos[p].estado
               /\ cerdos'[p].corral_id = cerdos[p].corral_id
          /\ \A c \in DOMAIN corrales :
               corrales'[c].ocupacion_actual = corrales[c].ocupacion_actual
          /\ \A l \in DOMAIN lotes :
               lotes'[l].cantidad_actual = lotes[l].cantidad_actual
     /\ (res = Idle /\ res'.op = "transferirCerdo") =>
          \A p \in DOMAIN cerdos :
            /\ cerdos'[p].peso_actual = cerdos[p].peso_actual
            /\ cerdos'[p].estado = cerdos[p].estado]_vars

\* a pig that is ENFERMO has just been weighed: it has the new weight and is
\* ENFERMO still
C33_Testigo ==
  /\ res = Result("registrarPesaje", "OK", "commit")
  /\ \E p \in DOMAIN cerdos :
       /\ cerdos[p].estado = "ENFERMO"
       /\ cerdos[p].peso_actual = 13
       /\ Len(cerdos[p].observaciones) >= 3
       /\ cerdos[p].observaciones[Len(cerdos[p].observaciones)].tipo = "PESO"

\* C36: when two cambiarEstado calls that both take one ACTIVO pig to VENDIDO
\* or MUERTO overlap, the occupancy of the pig's pen and the live count of its
\* lot are lowered by 1 and not by 2: the commit of a cambiarEstado to VENDIDO
\* or MUERTO lowers both by 1 when the store shows the pig as ACTIVO, and
\* leaves both as they are when the store shows it as VENDIDO or MUERTO
\* already.
C36_UnaBajaPorCerdo ==
  [][(res = Idle /\ res'.op = "cambiarEstado" /\ res'.tx = "commit") =>
     \A k \in ConAbierta :
       abiertas'[k] = << >> =>
         LET id == abiertas[k][1].arg.id
             baja == IF /\ cerdos[id].estado = "ACTIVO"
                        /\ abiertas[k][1].arg.nuevoEstado \in Terminal
                     THEN 1 ELSE 0
         IN /\ corrales'[cerdos[id].corral_id].ocupacion_actual
                 = corrales[cerdos[id].corral_id].ocupacion_actual - baja
            /\ lotes'[cerdos[id].lote_id].cantidad_actual
                 = lotes[cerdos[id].lote_id].cantidad_actual - baja]_vars

\* C37: when a transferirCerdo and a cambiarEstado to VENDIDO or MUERTO on one
\* ACTIVO pig overlap and both commit, the pen the pig ends in is the one that
\* loses it: the occupancy of every pen is the number of pigs located in it
\* that are neither VENDIDO nor MUERTO, and the occupancy of all pens together
\* is the number of such pigs (it has dropped by 1 for the pig that left).
C37_BajaEnCorralFinal ==
  /\ \A c \in DOMAIN corrales :
       corrales[c].ocupacion_actual
         = Cardinality({p \in CerdosActivos : cerdos[p].corral_id = c})
  /\ SumaOcupacion(corrales) = Cardinality(CerdosActivos)

\* C38: when two registrarPesaje calls on two ACTIVO pigs of one pen overlap
\* and both commit, the average weight the pen stores is the mean of the
\* weights of its ACTIVO pigs: after the commit of every registrarPesaje the
\* peso_promedio_actual of the pig's pen is the mean of the peso_actual of
\* the ACTIVO pigs the store then shows in the pen.
C38_PromedioTrasPesajes ==
  [][(res = Idle /\ res'.op = "registrarPesaje" /\ res'.tx = "commit") =>
     \A k \in ConAbierta :
       abiertas'[k] = << >> =>
         LET c == cerdos[abiertas[k][1].arg.id].corral_id
             A == Activos(cerdos', c)
         IN A # {} =>
              corrales'[c].peso_promedio_actual
                = Fraccion(SumaPesos(cerdos', A), Cardinality(A))]_vars

\* C34: the counters are updated relative to the value the row has: in every
\* interleaving of overlapping calls, the commit of an admission raises the
\* occupancy of its pen and the count of its lot by exactly one over what
\* the store holds, the commit of a death lowers those of the pig's pen and
\* lot by exactly one, and no other counter moves; no update is lost.
C34_ContadoresRelativos ==
  [][res = Idle /\ res'.tx = "commit" =>
       \A k \in Llamadores :
         abiertas[k] # << >> /\ abiertas'[k] = << >> =>
           LET t == abiertas[k][1]
               alta == t.op = "crearCerdo"
               baja == /\ t.op = "cambiarEstado"
                       /\ DescuentaCantidades(t.cerdo[1].estado, t.arg.nuevoEstado)
               enCorralDe(c) ==
                 IF alta /\ c = t.arg.corral_id THEN 1
                 ELSE IF baja /\ c = t.cerdo[1].corral_id THEN 0 - 1 ELSE 0
               enLoteDe(l) ==
                 IF alta /\ l = t.arg.lote_id THEN 1
                 ELSE IF baja /\ l = t.cerdo[1].lote_id THEN 0 - 1 ELSE 0
           IN /\ \A c \in DOMAIN corrales :
                   corrales'[c].ocupacion_actual =
                     corrales[c].ocupacion_actual + enCorralDe(c)
              /\ \A l \in DOMAIN lotes :
                   lotes'[l].cantidad_actual = lotes[l].cantidad_actual + enLoteDe(l)]_vars

\* an admission has raised the count of its lot after another call changed
\* it: the count it has written is not the count it read plus one
C34_Testigo ==
  \E k \in Llamadores :
    /\ abiertas[k] # << >>
    /\ abiertas[k][1].op = "crearCerdo"
    /\ abiertas[k][1].arg.lote_id \in DOMAIN abiertas[k][1].lotes
    /\ abiertas[k][1].lotes[abiertas[k][1].arg.lote_id].cantidad_actual
         # abiertas[k][1].lote[1].cantidad_actual + 1

\* C35: in crearCerdo, registrarPesaje, cambiarEstado and transferirCerdo every
\* check that can reject the operation comes before its first write: a call
\* that is rejected has issued no create, update, increment or decrement, it
\* leaves the store as it was, and the caller gets the one error of the check
\* that failed.
C35_VerificaAntesDeEscribir ==
  [][res = Idle /\ res'.tx = "rollback" =>
       \A k \in Llamadores :
         abiertas[k] # << >> /\ abiertas'[k] = << >> =>
           LET t == abiertas[k][1] IN
             /\ DOMAIN t.lotes = {} /\ DOMAIN t.corrales = {}
             /\ DOMAIN t.cerdos = {} /\ t.nuevo = << >>
             /\ <<lotes, corrales, cerdos>>' = <<lotes, corrales, cerdos>>
             /\ res'.op = t.op
             /\ res'.err \in {"NOT_FOUND", "CORRAL_FULL", "DUPLICATE_ARETE",
                               "INVALID_WEIGHT"}]_vars

\* a move into a full pen has been rejected at the last check of
\* transferirCerdo, after the pig and the pen were found
C35_Testigo == res = Result("transferirCerdo", "CORRAL_FULL", "rollback")

\* C39: every call of crearCerdo, registrarPesaje, cambiarEstado or
\* transferirCerdo ends with its transaction either committed or rolled back,
\* and the caller gets an error only when it was rolled back: a reload that
\* fails after the commit does not make a committed operation a failure.
C39_ErrorSoloTrasRollback ==
  res.op \in CerdoOps =>
    /\ res.tx \in {"commit", "rollback"}
    /\ res.err # "OK" => res.tx = "rollback"

\* C40: the text of the change log gives back what was appended: whatever
\* records registrarCambio has appended, with whatever notes, to a pig
\* created with whatever note, obtenerHistorial returns exactly those
\* records, in their order, with their field, values and note.
C40_HistorialDevuelveLoAnexado ==
  bitacora.historial # << >> => bitacora.historial[1] = bitacora.cambios

====
